---- MODULE Spec2Model ----
(***************************************************************************)
(* Model of the device-independent terminal driver, src/drivers/tty/tty.c. *)
(*                                                                         *)
(* One terminal line (one tty_t of tty_table) is modelled.  The C          *)
(* functions are operators that map a line state to a line state; one      *)
(* action of the model is one iteration of the loop of main(): a message   *)
(* is received, its handler runs, and the pending events of the line are   *)
(* handled before the server blocks in receive() again.                    *)
(***************************************************************************)
EXTENDS Integers, Sequences, FiniteSets, TLC

VARIABLES
  tty,    \* the tty_t of the line, the device behind it, and what the
          \* last iteration of main() sent, echoed, signalled and copied
  msg     \* the message handled by the last iteration of main()

vars == <<tty, msg>>

(***************************************************************************)
(* Bounds of the model.                                                    *)
(***************************************************************************)
InBufLen == 2       \* buflen(tty_inbuf): cells of the input queue
MaxCount == 2       \* largest COUNT of a DEV_READ or DEV_WRITE
MaxOpen == 2        \* largest open count the model lets a line reach
DevRoom == 1        \* characters of output the device takes at a time

(***************************************************************************)
(* Status codes of replies (negative, as in MINIX) and the message types.  *)
(***************************************************************************)
OK == 0
EINTR == -4
EIO == -5
EAGAIN == -11
EACCES == -13
EFAULT == -14
EINVAL == -22
ENOTTY == -25
SUSPEND == -998

\* line speed that means "hung up"
B0 == 0

\* column arithmetic of the echo and of out_process
TAB_SIZE == 8
TAB_MASK == 7

\* the value of a c_cc entry that disables it
POSIX_VDISABLE == 255

\* ioctl request codes (DEV_IOCTL's COUNT/REQUEST field)
TCGETS == 8
TCSETS == 9
TCSETSW == 10
TCSETSF == 11
TCDRAIN == 12
TCSBRK == 13
TCFLOW == 14
TCFLSH == 15
TIOCGWINSZ == 16
TIOCSWINSZ == 17
TIOCGPGRP == 18
TIOCSPGRP == 19

\* arguments of TCFLSH and TCFLOW
TCIFLUSH == 1
TCOFLUSH == 2
TCIOFLUSH == 3
TCOOFF == 1
TCOON == 2
TCIOFF == 3
TCION == 4

\* the only caller of the driver (the file system) and the user processes
FS_PROC_NR == 1
Procs == {11, 12}

\* tty_inhibited
RUNNING == FALSE
STOPPED == TRUE

(***************************************************************************)
(* termios.  Flags are sets of flag names; c_cc is a record.               *)
(***************************************************************************)
cc_defaults ==
  [VEOF |-> 4, VEOL |-> POSIX_VDISABLE, VERASE |-> 8, VINTR |-> 3,
   VKILL |-> 21, VMIN |-> 1, VQUIT |-> 28, VTIME |-> 0, VSUSP |-> 26,
   VSTART |-> 17, VSTOP |-> 19, VREPRINT |-> 18, VLNEXT |-> 22,
   VDISCARD |-> 15]

termios_defaults ==
  [c_iflag |-> {"BRKINT", "ICRNL", "IXON", "IXANY"},
   c_oflag |-> {"OPOST", "ONLCR"},
   c_cflag |-> {"CREAD", "CS8", "HUPCL"},
   c_lflag |-> {"ISIG", "IEXTEN", "ICANON", "ECHO", "ECHOE"},
   c_ispeed |-> 9600,
   c_ospeed |-> 9600,
   c_cc |-> cc_defaults]

winsize_defaults == [ws_row |-> 0, ws_col |-> 0]

\* A raw-mode termios with the given MIN and TIME and no input processing.
RawTermios(vmin, vtime) ==
  [termios_defaults EXCEPT
     !.c_iflag = {},
     !.c_lflag = {},
     !.c_cc = [cc_defaults EXCEPT !.VMIN = vmin, !.VTIME = vtime]]

\* The same termios with the output speed set to B0 (hang up).
HungUp(t) == [t EXCEPT !.c_ospeed = B0]

(***************************************************************************)
(* Cells of the input queue: a character with the attributes IN_ESC,       *)
(* IN_EOT, IN_EOF and the echoed length IN_LEN.  The C code keeps them in  *)
(* the bits of one u16_t.                                                  *)
(***************************************************************************)
Cell(c) == [ch |-> c, esc |-> FALSE, eot |-> FALSE, eof |-> FALSE, len |-> 0]

\* `ch == v' of the C code: equal as integers, so no attribute bit is set
ChIs(ch, v) == ch.ch = v /\ ~ch.esc /\ ~ch.eot /\ ~ch.eof /\ ch.len = 0

NoCell == Cell(0)

\* index arithmetic of the circular buffer: ++p == bufend ? buf : p
NextIdx(i) == IF i + 1 = InBufLen THEN 0 ELSE i + 1
PrevIdx(i) == IF i = 0 THEN InBufLen - 1 ELSE i - 1

(***************************************************************************)
(* The line after tty_init().                                              *)
(***************************************************************************)
tty_init ==
  [ tty_events |-> FALSE,
    tty_inbuf |-> [i \in 0 .. InBufLen - 1 |-> NoCell],
    tty_inhead |-> 0, tty_intail |-> 0,
    tty_incount |-> 0, tty_eotct |-> 0,
    tty_min |-> 1,
    tty_tmr |-> FALSE,
    tty_escaped |-> FALSE, tty_reprint |-> FALSE, tty_position |-> 0,
    tty_inrepcode |-> "NONE", tty_inrevived |-> FALSE,
    tty_incaller |-> 0, tty_inproc |-> 0, tty_in_vir |-> 0,
    tty_inleft |-> 0, tty_incum |-> 0,
    tty_outrepcode |-> "NONE", tty_outrevived |-> FALSE,
    tty_outcaller |-> 0, tty_outproc |-> 0, tty_out_vir |-> 0,
    tty_outleft |-> 0, tty_outcum |-> 0,
    tty_iocaller |-> 0, tty_ioproc |-> 0, tty_ioreq |-> 0,
    tty_iovir |-> termios_defaults,
    tty_select_ops |-> {}, tty_select_proc |-> 0,
    tty_pgrp |-> 0, tty_openct |-> 0,
    tty_inhibited |-> RUNNING,
    tty_termios |-> termios_defaults,
    tty_winsize |-> winsize_defaults,
    \* the device behind the line
    dev_in |-> << >>,      \* characters the device holds for devread
    dev_room |-> DevRoom,  \* characters of output the device can take
    \* what this iteration of main() produced
    sent |-> << >>,        \* messages sent (tty_reply, send, notify)
    sigs |-> << >>,        \* sys_kill calls
    echo |-> << >>,        \* characters given to the device's echo
    ubuf |-> << >>,        \* characters copied to the reader's buffer
    \* what this iteration copied to the caller of a DEV_IOCTL
    iobuf |-> << >> ]

(***************************************************************************)
(* Replies and notifications.                                              *)
(***************************************************************************)
Has(flags, f) == f \in flags

tty_reply(s, code, replyee, proc_nr, status) ==
  [s EXCEPT !.sent = Append(@, [m_type |-> code, to |-> replyee,
                               REP_PROC_NR |-> proc_nr,
                               REP_STATUS |-> status])]

notify(s, dst) ==
  [s EXCEPT !.sent = Append(@, [m_type |-> "NOTIFY", to |-> dst,
                               REP_PROC_NR |-> 0, REP_STATUS |-> 0])]

sys_kill(s, pgrp, sig) ==
  [s EXCEPT !.sigs = Append(@, [proc |-> pgrp, sig |-> sig])]

(***************************************************************************)
(* The device's side of the line (console.c, rs232.c, pty.c): the          *)
(* functions behind tty_echo, tty_icancel, tty_ocancel, tty_devread and    *)
(* tty_devwrite.                                                           *)
(***************************************************************************)
\* tp->tty_echo(tp, c): emit one character, keeping the column
dev_echo(s, c) ==
  LET pos == s.tty_position
      np == IF c = 7 THEN pos
            ELSE IF c = 8 THEN pos - 1
            ELSE IF c = 13 THEN 0
            ELSE IF c = 10
                 THEN (IF {"OPOST", "ONLCR"} \subseteq s.tty_termios.c_oflag
                       THEN 0 ELSE pos)
            ELSE IF c = 9 THEN pos + (TAB_SIZE - (pos % TAB_SIZE))
            ELSE pos + 1
  IN [s EXCEPT !.echo = Append(@, c), !.tty_position = np % TAB_SIZE]

\* tp->tty_icancel(tp, 0): discard the input the device still holds
dev_icancel(s) == [s EXCEPT !.dev_in = << >>]

\* tp->tty_ocancel(tp, 0): discard the output the device still holds
dev_ocancel(s) == [s EXCEPT !.dev_room = DevRoom]

(***************************************************************************)
(* settimer, tty_timed_out                                                 *)
(***************************************************************************)
\* tty_tmr tells whether the timer of the line is on the queue of timers
settimer(s, enable) == [s EXCEPT !.tty_tmr = enable]

tty_timed_out(s) == [s EXCEPT !.tty_min = 0, !.tty_events = TRUE]

\* expire_timers: tmrs_exptimers takes the timer of the line off the queue
\* and runs its watchdog if the time it was set for has come
expire_timers(s, due) ==
  IF s.tty_tmr /\ due THEN tty_timed_out([s EXCEPT !.tty_tmr = FALSE])
  ELSE s

(***************************************************************************)
(* rawecho, tty_echo                                                       *)
(***************************************************************************)
rawecho(s, c) ==
  IF Has(s.tty_termios.c_lflag, "ECHO")
  THEN [dev_echo(s, c) EXCEPT !.tty_reprint = s.tty_reprint]
  ELSE s

\* the do-while of the '\t' case of tty_echo
RECURSIVE echo_tab(_, _)
echo_tab(s, len) ==
  LET again(s1) ==
        IF len + 1 < TAB_SIZE /\ (s1.tty_position % (TAB_MASK + 1)) # 0
        THEN echo_tab(s1, len + 1)
        ELSE [s |-> s1, len |-> len + 1]
  IN again(dev_echo(s, 32))

\* len times tp->tty_echo(tp, '\b')
RECURSIVE echo_bs(_, _)
echo_bs(s, len) == IF len > 0 THEN echo_bs(dev_echo(s, 8), len - 1) ELSE s

\* returns [s |-> the line, ch |-> the character with its length]
tty_echo(s, ch0) ==
  LET ch == [ch0 EXCEPT !.len = 0]
      lflag == s.tty_termios.c_lflag
      rp == IF s.tty_incount = 0 THEN FALSE ELSE s.tty_reprint
      \* "if (ch & IN_EOF) while (len > 0) ..." and the return
      finish(r) ==
        [s |-> [(IF ch.eof THEN echo_bs(r.s, r.len) ELSE r.s)
                  EXCEPT !.tty_reprint = rp],
         ch |-> [ch EXCEPT !.len = IF ch.eof THEN 0 ELSE r.len]]
  IN IF ~Has(lflag, "ECHO")
     THEN [s |-> IF ch = [Cell(10) EXCEPT !.eot = TRUE]
                    /\ {"ICANON", "ECHONL"} \subseteq lflag
                 THEN dev_echo(s, 10) ELSE s,
           ch |-> ch]
     ELSE finish(
       IF ch.ch < 32
       THEN IF ch.ch = 9 /\ ~ch.esc /\ ~ch.eof /\ ~ch.eot
            THEN echo_tab(s, 0)
            ELSE IF ch.ch \in {10, 13} /\ ch.eot /\ ~ch.esc /\ ~ch.eof
            THEN [s |-> dev_echo(s, ch.ch), len |-> 0]
            ELSE [s |-> dev_echo(dev_echo(s, 94), 64 + ch.ch), len |-> 2]
       ELSE IF ch.ch = 127
       THEN [s |-> dev_echo(dev_echo(s, 94), 63), len |-> 2]
       ELSE [s |-> dev_echo(s, ch.ch), len |-> 1])

(***************************************************************************)
(* reprint, back_over                                                      *)
(***************************************************************************)
\* the first loop of reprint: walk back from the head to the last line
\* break; returns [head, count]
RECURSIVE reprint_find(_, _, _)
reprint_find(s, head, count) ==
  IF count > 0 /\ ~s.tty_inbuf[PrevIdx(head)].eot
  THEN reprint_find(s, PrevIdx(head), count - 1)
  ELSE [head |-> head, count |-> count]

\* the second loop of reprint: echo again from the last break onwards
RECURSIVE reprint_echo(_, _, _)
reprint_echo(s, head, count) ==
  LET again(s1) ==
        IF count + 1 < s1.tty_incount
        THEN reprint_echo(s1, NextIdx(head), count + 1)
        ELSE s1
      put(r) == [r.s EXCEPT !.tty_inbuf[head] = r.ch]
  IN again(put(tty_echo(s, s.tty_inbuf[head])))

reprint(s) ==
  LET from(s1, f) ==
        IF f.count = s1.tty_incount
        THEN s1
        ELSE reprint_echo(
               rawecho(rawecho(
                 tty_echo(s1, [Cell(s1.tty_termios.c_cc.VREPRINT)
                                 EXCEPT !.esc = TRUE]).s, 13), 10),
               f.head, f.count)
  IN from([s EXCEPT !.tty_reprint = FALSE],
          reprint_find(s, s.tty_inhead, s.tty_incount))

\* len times "\b \b"
RECURSIVE erase_echo(_, _)
erase_echo(s, len) ==
  IF len > 0
  THEN erase_echo(rawecho(rawecho(rawecho(s, 8), 32), 8), len - 1)
  ELSE s

\* back_over taking the erased character off tty_eotct as well
back_over_counts_eot(s) ==
  LET head == PrevIdx(s.tty_inhead)
      wipe(s2) ==
        IF Has(s2.tty_termios.c_lflag, "ECHOE")
        THEN erase_echo(s2, s2.tty_inbuf[head].len)
        ELSE s2
      take(s1) ==
        wipe([s1 EXCEPT !.tty_inhead = head, !.tty_incount = @ - 1,
                        !.tty_eotct = IF @ > 0 THEN @ - 1 ELSE 0])
  IN IF s.tty_incount = 0 THEN [s |-> s, r |-> 0]
     ELSE IF s.tty_inbuf[head].eot THEN [s |-> s, r |-> 0]
     ELSE [s |-> take(IF s.tty_reprint THEN reprint(s) ELSE s), r |-> 1]

\* back_over without "if (*--head & IN_EOT) return(0)"
back_over_ignores_eot(s) ==
  LET head == PrevIdx(s.tty_inhead)
      wipe(s2) ==
        IF Has(s2.tty_termios.c_lflag, "ECHOE")
        THEN erase_echo(s2, s2.tty_inbuf[head].len)
        ELSE s2
      take(s1) ==
        wipe([s1 EXCEPT !.tty_inhead = head, !.tty_incount = @ - 1])
  IN IF s.tty_incount = 0 THEN [s |-> s, r |-> 0]
     ELSE [s |-> take(IF s.tty_reprint THEN reprint(s) ELSE s), r |-> 1]

\* returns [s |-> the line, r |-> 1 if a character was erased, else 0]
back_over(s) ==
  LET head == PrevIdx(s.tty_inhead)
      wipe(s2) ==
        IF Has(s2.tty_termios.c_lflag, "ECHOE")
        THEN erase_echo(s2, s2.tty_inbuf[head].len)
        ELSE s2
      take(s1) ==
        wipe([s1 EXCEPT !.tty_inhead = head, !.tty_incount = @ - 1])
  IN IF s.tty_incount = 0 THEN [s |-> s, r |-> 0]
     ELSE IF s.tty_inbuf[head].eot THEN [s |-> s, r |-> 0]
     ELSE [s |-> take(IF s.tty_reprint THEN reprint(s) ELSE s), r |-> 1]

\* while (back_over(tp)) {}
RECURSIVE kill_line(_)
kill_line(s) ==
  LET again(b) == IF b.r = 1 THEN kill_line(b.s) ELSE b.s
  IN again(back_over(s))

(***************************************************************************)
(* tty_icancel, sigchar                                                    *)
(***************************************************************************)
\* tty_icancel without "tp->tty_intail = tp->tty_inhead"
tty_icancel_keeps_intail(s) ==
  dev_icancel([s EXCEPT !.tty_incount = 0, !.tty_eotct = 0])

\* tty_icancel without "tp->tty_eotct = 0"
tty_icancel_keeps_eotct(s) ==
  dev_icancel([s EXCEPT !.tty_incount = 0, !.tty_intail = s.tty_inhead])

tty_icancel(s) ==
  dev_icancel([s EXCEPT !.tty_incount = 0, !.tty_eotct = 0,
                        !.tty_intail = s.tty_inhead])

\* sigchar without "tp->tty_intail = tp->tty_inhead"
sigchar_keeps_intail(s, sig) ==
  LET flush(s1) ==
        IF ~Has(s1.tty_termios.c_lflag, "NOFLSH")
        THEN [dev_ocancel(s1) EXCEPT !.tty_incount = 0, !.tty_eotct = 0,
                                     !.tty_inhibited = RUNNING,
                                     !.tty_events = TRUE]
        ELSE s1
  IN flush(IF s.tty_pgrp # 0 THEN sys_kill(s, s.tty_pgrp, sig) ELSE s)

\* sigchar flushing whether or not NOFLSH is set
sigchar_ignores_noflsh(s, sig) ==
  LET flush(s1) ==
        [dev_ocancel(s1) EXCEPT !.tty_incount = 0, !.tty_eotct = 0,
                                !.tty_intail = s1.tty_inhead,
                                !.tty_inhibited = RUNNING,
                                !.tty_events = TRUE]
  IN flush(IF s.tty_pgrp # 0 THEN sys_kill(s, s.tty_pgrp, sig) ELSE s)

sigchar(s, sig) ==
  LET flush(s1) ==
        IF ~Has(s1.tty_termios.c_lflag, "NOFLSH")
        THEN [dev_ocancel(s1) EXCEPT !.tty_incount = 0, !.tty_eotct = 0,
                                     !.tty_intail = s1.tty_inhead,
                                     !.tty_inhibited = RUNNING,
                                     !.tty_events = TRUE]
        ELSE s1
  IN flush(IF s.tty_pgrp # 0 THEN sys_kill(s, s.tty_pgrp, sig) ELSE s)

(***************************************************************************)
(* in_transfer                                                             *)
(***************************************************************************)
\* in_transfer_loop without "if (!(ch & IN_EOF))": the EOF cell is copied
RECURSIVE in_transfer_loop_copies_eof(_)
in_transfer_loop_copies_eof(s) ==
  IF s.tty_inleft > 0 /\ s.tty_eotct > 0
  THEN
    LET ch == s.tty_inbuf[s.tty_intail]
        copy(a) ==
          [a EXCEPT !.tty_inleft = @ - 1,
                    !.ubuf = Append(@, ch.ch),
                    !.tty_in_vir = @ + 1,
                    !.tty_incum = @ + 1]
        remove(a) ==
          [a EXCEPT !.tty_intail = NextIdx(@), !.tty_incount = @ - 1]
        linebreak(a) ==
          IF ch.eot
          THEN [a EXCEPT
                  !.tty_eotct = @ - 1,
                  !.tty_inleft = IF Has(a.tty_termios.c_lflag, "ICANON")
                                 THEN 0 ELSE @]
          ELSE a
    IN in_transfer_loop_copies_eof(linebreak(remove(copy(s))))
  ELSE s

\* the while loop of in_transfer; the characters gathered in buf[] reach
\* the reader's buffer in order, so they are appended there one by one,
\* and tty_in_vir and tty_incum advance with them
RECURSIVE in_transfer_loop(_)
in_transfer_loop(s) ==
  IF s.tty_inleft > 0 /\ s.tty_eotct > 0
  THEN
    LET ch == s.tty_inbuf[s.tty_intail]
        \* "One character to be delivered to the user."
        copy(a) ==
          IF ~ch.eof
          THEN [a EXCEPT !.tty_inleft = @ - 1,
                         !.ubuf = Append(@, ch.ch),
                         !.tty_in_vir = @ + 1,
                         !.tty_incum = @ + 1]
          ELSE a
        \* "Remove the character from the input queue."
        remove(a) ==
          [a EXCEPT !.tty_intail = NextIdx(@), !.tty_incount = @ - 1]
        \* "if (ch & IN_EOT)"
        linebreak(a) ==
          IF ch.eot
          THEN [a EXCEPT
                  !.tty_eotct = @ - 1,
                  !.tty_inleft = IF Has(a.tty_termios.c_lflag, "ICANON")
                                 THEN 0 ELSE @]
          ELSE a
    IN in_transfer_loop(linebreak(remove(copy(s))))
  ELSE s

\* the reply at the end of in_transfer and of handle_events
reply_reader(s) ==
  IF s.tty_inrepcode = "REVIVE"
  THEN [notify(s, s.tty_incaller) EXCEPT !.tty_inrevived = TRUE]
  ELSE [tty_reply(s, s.tty_inrepcode, s.tty_incaller, s.tty_inproc,
                  s.tty_incum)
          EXCEPT !.tty_inleft = 0, !.tty_incum = 0]

\* in_transfer without "if (tp->tty_termios.c_ospeed == B0) tp->tty_min = 0"
in_transfer_ignores_hangup(s) ==
  LET done(s2) == IF s2.tty_inleft = 0 THEN reply_reader(s2) ELSE s2
  IN IF s.tty_inleft = 0 \/ s.tty_eotct < s.tty_min
     THEN s
     ELSE done(in_transfer_loop(s))

in_transfer(s) ==
  LET done(s2) == IF s2.tty_inleft = 0 THEN reply_reader(s2) ELSE s2
      go(s1) ==
        IF s1.tty_inleft = 0 \/ s1.tty_eotct < s1.tty_min
        THEN s1
        ELSE done(in_transfer_loop(s1))
  IN go(IF s.tty_termios.c_ospeed = B0
        THEN [s EXCEPT !.tty_min = 0] ELSE s)

(***************************************************************************)
(* in_process.  The body of its for loop is a chain of steps on             *)
(*   x = [s |-> the line, ch |-> the character with its attributes,        *)
(*        done |-> a `continue' has ended this turn of the loop,           *)
(*        stop |-> the `break' has ended the loop,                         *)
(*        timeset |-> the local of that name]                              *)
(***************************************************************************)
\* "Input extensions?"
in_ext(x) ==
  LET t == x.s.tty_termios
      ch == IF x.s.tty_escaped THEN [x.ch EXCEPT !.esc = TRUE] ELSE x.ch
      s1 == [x.s EXCEPT !.tty_escaped = FALSE]
  IN IF ~Has(t.c_lflag, "IEXTEN") THEN x
     ELSE IF ChIs(ch, t.c_cc.VLNEXT)
     THEN [x EXCEPT
             !.s = rawecho(rawecho([s1 EXCEPT !.tty_escaped = TRUE], 94), 8),
             !.done = TRUE]
     ELSE IF ChIs(ch, t.c_cc.VREPRINT)
     THEN [x EXCEPT !.s = reprint(s1), !.done = TRUE]
     ELSE [x EXCEPT !.s = s1, !.ch = ch]

\* "_POSIX_VDISABLE is a normal character value" and the CR/LF mapping
in_map(x) ==
  LET t == x.s.tty_termios
      ch == IF ChIs(x.ch, POSIX_VDISABLE) THEN [x.ch EXCEPT !.esc = TRUE]
            ELSE x.ch
  IN IF x.done THEN x
     ELSE IF ChIs(ch, 13)
     THEN IF Has(t.c_iflag, "IGNCR") THEN [x EXCEPT !.done = TRUE]
          ELSE [x EXCEPT !.ch = IF Has(t.c_iflag, "ICRNL") THEN Cell(10)
                                ELSE ch]
     ELSE IF ChIs(ch, 10)
     THEN [x EXCEPT !.ch = IF Has(t.c_iflag, "INLCR") THEN Cell(13) ELSE ch]
     ELSE [x EXCEPT !.ch = ch]

\* "Canonical mode?"
in_canon(x) ==
  LET t == x.s.tty_termios
      \* "if (!(tp->tty_termios.c_lflag & ECHOE))" of the erase character
      erased(s1) ==
        IF ~Has(t.c_lflag, "ECHOE") THEN tty_echo(s1, x.ch).s ELSE s1
      \* the same of the kill character
      kill_nl(s2) == IF Has(t.c_lflag, "ECHOK") THEN rawecho(s2, 10) ELSE s2
      killed(s1) ==
        IF ~Has(t.c_lflag, "ECHOE") THEN kill_nl(tty_echo(s1, x.ch).s)
        ELSE s1
      c1 == IF ChIs(x.ch, t.c_cc.VEOF)
            THEN [x.ch EXCEPT !.eot = TRUE, !.eof = TRUE] ELSE x.ch
      c2 == IF ChIs(c1, 10) THEN [c1 EXCEPT !.eot = TRUE] ELSE c1
      c3 == IF ChIs(c2, t.c_cc.VEOL) THEN [c2 EXCEPT !.eot = TRUE] ELSE c2
  IN IF x.done \/ ~Has(t.c_lflag, "ICANON") THEN x
     ELSE IF ChIs(x.ch, t.c_cc.VERASE)
     THEN [x EXCEPT !.s = erased(back_over(x.s).s), !.done = TRUE]
     ELSE IF ChIs(x.ch, t.c_cc.VKILL)
     THEN [x EXCEPT !.s = killed(kill_line(x.s)), !.done = TRUE]
     ELSE [x EXCEPT !.ch = c3]

\* in_ixon with the START test outside "if (tp->tty_inhibited)": START is
\* taken as flow control on a running line too
in_ixon_start_always(x) ==
  LET t == x.s.tty_termios
  IN IF x.done \/ ~Has(t.c_iflag, "IXON") THEN x
     ELSE IF ChIs(x.ch, t.c_cc.VSTOP)
     THEN [x EXCEPT !.s.tty_inhibited = STOPPED, !.s.tty_events = TRUE,
                    !.done = TRUE]
     ELSE IF ChIs(x.ch, t.c_cc.VSTART)
             \/ (x.s.tty_inhibited = STOPPED /\ Has(t.c_iflag, "IXANY"))
     THEN [x EXCEPT !.s.tty_inhibited = RUNNING, !.s.tty_events = TRUE,
                    !.done = ChIs(x.ch, t.c_cc.VSTART)]
     ELSE x

\* "Start/stop input control?"
in_ixon(x) ==
  LET t == x.s.tty_termios
  IN IF x.done \/ ~Has(t.c_iflag, "IXON") THEN x
     ELSE IF ChIs(x.ch, t.c_cc.VSTOP)
     THEN [x EXCEPT !.s.tty_inhibited = STOPPED, !.s.tty_events = TRUE,
                    !.done = TRUE]
     ELSE IF x.s.tty_inhibited = STOPPED
             /\ (ChIs(x.ch, t.c_cc.VSTART) \/ Has(t.c_iflag, "IXANY"))
     THEN [x EXCEPT !.s.tty_inhibited = RUNNING, !.s.tty_events = TRUE,
                    !.done = ChIs(x.ch, t.c_cc.VSTART)]
     ELSE x

\* "if (tp->tty_termios.c_lflag & ISIG)"
in_isig(x) ==
  LET t == x.s.tty_termios
  IN IF x.done \/ ~Has(t.c_lflag, "ISIG") THEN x
     ELSE IF ChIs(x.ch, t.c_cc.VINTR) \/ ChIs(x.ch, t.c_cc.VQUIT)
     THEN [x EXCEPT
             !.s = tty_echo(sigchar(x.s, IF ChIs(x.ch, t.c_cc.VQUIT)
                                         THEN "SIGQUIT" ELSE "SIGINT"),
                            x.ch).s,
             !.done = TRUE]
     ELSE x

\* in_store with `continue' for `break': a character that finds the queue
\* full is dropped in raw mode too
in_store_drops_raw(x) ==
  LET t == x.s.tty_termios
      canon == Has(t.c_lflag, "ICANON")
      arm == ~canon /\ ~x.timeset /\ t.c_cc.VMIN > 0 /\ t.c_cc.VTIME > 0
      ch1 == IF canon THEN x.ch ELSE [x.ch EXCEPT !.eot = TRUE]
      s1 == IF arm THEN settimer(x.s, TRUE) ELSE x.s
      save(e) ==
        [e.s EXCEPT !.tty_inbuf[e.s.tty_inhead] = e.ch,
                    !.tty_inhead = NextIdx(@),
                    !.tty_incount = @ + 1,
                    !.tty_eotct = IF e.ch.eot THEN @ + 1 ELSE @]
      full(s2) == IF s2.tty_incount = InBufLen THEN in_transfer(s2) ELSE s2
  IN IF x.done THEN x
     ELSE IF x.s.tty_incount = InBufLen
     THEN [x EXCEPT !.done = TRUE]
     ELSE [x EXCEPT
             !.s = full(save(IF t.c_lflag \cap {"ECHO", "ECHONL"} # {}
                             THEN tty_echo(s1, ch1)
                             ELSE [s |-> s1, ch |-> ch1])),
             !.timeset = @ \/ arm]

\* "Is there space in the input buffer?" and the rest of the body: the
\* character is stored unless the queue is full
in_store(x) ==
  LET t == x.s.tty_termios
      canon == Has(t.c_lflag, "ICANON")
      \* "Start an inter-byte timer?"
      arm == ~canon /\ ~x.timeset /\ t.c_cc.VMIN > 0 /\ t.c_cc.VTIME > 0
      ch1 == IF canon THEN x.ch ELSE [x.ch EXCEPT !.eot = TRUE]
      s1 == IF arm THEN settimer(x.s, TRUE) ELSE x.s
      \* "Save the character in the input queue."
      save(e) ==
        [e.s EXCEPT !.tty_inbuf[e.s.tty_inhead] = e.ch,
                    !.tty_inhead = NextIdx(@),
                    !.tty_incount = @ + 1,
                    !.tty_eotct = IF e.ch.eot THEN @ + 1 ELSE @]
      \* "Try to finish input if the queue threatens to overflow."
      full(s2) == IF s2.tty_incount = InBufLen THEN in_transfer(s2) ELSE s2
  IN IF x.done THEN x
     ELSE IF x.s.tty_incount = InBufLen
     THEN [x EXCEPT !.done = canon, !.stop = ~canon]
     ELSE [x EXCEPT
             !.s = full(save(IF t.c_lflag \cap {"ECHO", "ECHONL"} # {}
                             THEN tty_echo(s1, ch1)
                             ELSE [s |-> s1, ch |-> ch1])),
             !.timeset = @ \/ arm]

\* in_process_char with "ch &= 0x7F" applied whether or not ISTRIP is set
in_process_char_strips(s, c, timeset) ==
  in_store(in_isig(in_ixon(in_canon(in_map(in_ext(
    [s |-> s, ch |-> Cell(c % 128),
     done |-> FALSE, stop |-> FALSE, timeset |-> timeset]))))))

\* one turn of the for loop of in_process, on the character c
in_process_char(s, c, timeset) ==
  in_store(in_isig(in_ixon(in_canon(in_map(in_ext(
    [s |-> s,
     ch |-> Cell(IF Has(s.tty_termios.c_iflag, "ISTRIP") THEN c % 128
                 ELSE c % 256),
     done |-> FALSE, stop |-> FALSE, timeset |-> timeset]))))))

RECURSIVE in_process_from(_, _, _, _)
in_process_from(s, buf, ct, timeset) ==
  LET next(x) ==
        IF x.stop THEN [s |-> x.s, ct |-> ct]
        ELSE in_process_from(x.s, buf, ct + 1, x.timeset)
  IN IF ct >= Len(buf) THEN [s |-> s, ct |-> ct]
     ELSE next(in_process_char(s, buf[ct + 1], timeset))

\* returns [s |-> the line, ct |-> the number of characters processed]
in_process(s, buf) == in_process_from(s, buf, 0, FALSE)

(***************************************************************************)
(* The device's devread and devwrite.                                      *)
(***************************************************************************)
\* tp->tty_devread(tp, 0): give the characters the device holds to
\* in_process and keep those it did not take
dev_read(s) ==
  LET keep(r) ==
        [r.s EXCEPT !.dev_in = SubSeq(s.dev_in, r.ct + 1, Len(s.dev_in))]
  IN IF s.dev_in = << >> THEN s ELSE keep(in_process(s, s.dev_in))

\* tp->tty_devwrite(tp, 1): would a write make progress?
dev_write_try(s) == s.dev_room > 0 /\ s.tty_inhibited = RUNNING

\* tp->tty_devwrite(tp, 0): take as much of the writer's data as the
\* device has room for, and answer the writer when nothing is left
dev_write(s) ==
  LET count == IF s.tty_outleft < s.dev_room THEN s.tty_outleft
               ELSE s.dev_room
      answer(s1) ==
        IF s1.tty_outleft # 0 THEN s1
        ELSE IF s1.tty_outrepcode = "REVIVE"
        THEN [notify(s1, s1.tty_outcaller) EXCEPT !.tty_outrevived = TRUE]
        ELSE [tty_reply(s1, s1.tty_outrepcode, s1.tty_outcaller,
                        s1.tty_outproc, s1.tty_outcum)
                EXCEPT !.tty_outcum = 0]
  IN IF count = 0 \/ s.tty_inhibited = STOPPED THEN s
     ELSE answer([s EXCEPT !.tty_reprint = TRUE,
                           !.dev_room = @ - count,
                           !.tty_out_vir = @ + count,
                           !.tty_outcum = @ + count,
                           !.tty_outleft = @ - count])

(***************************************************************************)
(* setattr, dev_ioctl                                                      *)
(***************************************************************************)
\* the while loop of setattr: IN_EOT on count cells from inp onwards
\* the loop of setattr marking only the cell at the tail
mark_eot_tail_only(buf, inp, count) ==
  IF count > 0 THEN [buf EXCEPT ![inp].eot = TRUE] ELSE buf

RECURSIVE mark_eot(_, _, _)
mark_eot(buf, inp, count) ==
  IF count > 0
  THEN mark_eot([buf EXCEPT ![inp].eot = TRUE], NextIdx(inp), count - 1)
  ELSE buf

\* setattr leaving tty_min as it finds it in canonical mode
setattr_keeps_min(s) ==
  LET t == s.tty_termios
      canon == Has(t.c_lflag, "ICANON")
      hup(s4) == IF t.c_ospeed = B0 THEN sigchar(s4, "SIGHUP") ELSE s4
      ixon(s3) ==
        IF ~Has(t.c_iflag, "IXON")
        THEN [s3 EXCEPT !.tty_inhibited = RUNNING, !.tty_events = TRUE]
        ELSE s3
      min(s1) ==
        [settimer(s1, FALSE) EXCEPT !.tty_min =
           IF canon THEN @
           ELSE IF t.c_cc.VMIN = 0 /\ t.c_cc.VTIME > 0 THEN 1
           ELSE t.c_cc.VMIN]
  IN hup(ixon(min(
       IF ~canon
       THEN [s EXCEPT !.tty_eotct = s.tty_incount,
                      !.tty_inbuf = mark_eot(@, s.tty_intail, s.tty_incount)]
       ELSE s)))

\* setattr with "tp->tty_eotct += tp->tty_incount" in raw mode
setattr_adds_eotct(s) ==
  LET t == s.tty_termios
      canon == Has(t.c_lflag, "ICANON")
      hup(s4) == IF t.c_ospeed = B0 THEN sigchar(s4, "SIGHUP") ELSE s4
      ixon(s3) ==
        IF ~Has(t.c_iflag, "IXON")
        THEN [s3 EXCEPT !.tty_inhibited = RUNNING, !.tty_events = TRUE]
        ELSE s3
      min(s1) ==
        [settimer(s1, FALSE) EXCEPT !.tty_min =
           IF canon THEN 1
           ELSE IF t.c_cc.VMIN = 0 /\ t.c_cc.VTIME > 0 THEN 1
           ELSE t.c_cc.VMIN]
  IN hup(ixon(min(
       IF ~canon
       THEN [s EXCEPT !.tty_eotct = @ + s.tty_incount,
                      !.tty_inbuf = mark_eot(@, s.tty_intail, s.tty_incount)]
       ELSE s)))

\* setattr storing the MIN it computed back into c_cc[VMIN]
setattr_stores_min(s) ==
  LET t == s.tty_termios
      canon == Has(t.c_lflag, "ICANON")
      hup(s4) == IF t.c_ospeed = B0 THEN sigchar(s4, "SIGHUP") ELSE s4
      ixon(s3) ==
        IF ~Has(t.c_iflag, "IXON")
        THEN [s3 EXCEPT !.tty_inhibited = RUNNING, !.tty_events = TRUE]
        ELSE s3
      min(s1) ==
        [settimer(s1, FALSE) EXCEPT !.tty_min =
           IF canon THEN 1
           ELSE IF t.c_cc.VMIN = 0 /\ t.c_cc.VTIME > 0 THEN 1
           ELSE t.c_cc.VMIN]
      store(s2) == [s2 EXCEPT !.tty_termios.c_cc.VMIN = s2.tty_min]
  IN hup(ixon(store(min(
       IF ~canon
       THEN [s EXCEPT !.tty_eotct = s.tty_incount,
                      !.tty_inbuf = mark_eot(@, s.tty_intail, s.tty_incount)]
       ELSE s))))

setattr(s) ==
  LET t == s.tty_termios
      canon == Has(t.c_lflag, "ICANON")
      \* "Setting the output speed to zero hangs up the phone."
      hup(s4) == IF t.c_ospeed = B0 THEN sigchar(s4, "SIGHUP") ELSE s4
      \* "No start/stop output control, so don't leave output inhibited."
      ixon(s3) ==
        IF ~Has(t.c_iflag, "IXON")
        THEN [s3 EXCEPT !.tty_inhibited = RUNNING, !.tty_events = TRUE]
        ELSE s3
      \* "Inspect MIN and TIME."
      min(s1) ==
        [settimer(s1, FALSE) EXCEPT !.tty_min =
           IF canon THEN 1
           ELSE IF t.c_cc.VMIN = 0 /\ t.c_cc.VTIME > 0 THEN 1
           ELSE t.c_cc.VMIN]
  IN hup(ixon(min(
       IF ~canon
       THEN [s EXCEPT !.tty_eotct = s.tty_incount,
                      !.tty_inbuf = mark_eot(@, s.tty_intail, s.tty_incount)]
       ELSE s)))

\* `int result;' of dev_ioctl, which only the branch that copies the
\* termios assigns: the value it holds otherwise is not defined
UNINIT == -9999

dev_ioctl(s) ==
  LET reply(s1) ==
        tty_reply([s1 EXCEPT !.tty_ioreq = 0], "REVIVE", s1.tty_iocaller,
                  s1.tty_ioproc,
                  IF s.tty_ioreq # TCDRAIN THEN OK ELSE UNINIT)
  IN IF s.tty_outleft > 0 THEN s
     ELSE IF s.tty_ioreq = TCDRAIN THEN reply(s)
     ELSE reply(setattr([(IF s.tty_ioreq = TCSETSF THEN tty_icancel(s)
                          ELSE s)
                           EXCEPT !.tty_termios = s.tty_iovir]))

(***************************************************************************)
(* select_try, select_retry                                                *)
(***************************************************************************)
select_try(s, ops) ==
  (IF s.tty_termios.c_ospeed = B0 THEN ops ELSE {})
  \cup
  (IF "SEL_RD" \in ops
      /\ (s.tty_inleft > 0
          \/ (s.tty_incount > 0
              /\ (~Has(s.tty_termios.c_lflag, "ICANON")
                  \/ s.tty_eotct > 0)))
   THEN {"SEL_RD"} ELSE {})
  \cup
  (IF "SEL_WR" \in ops /\ (s.tty_outleft > 0 \/ dev_write_try(s))
   THEN {"SEL_WR"} ELSE {})

select_retry(s) ==
  IF select_try(s, s.tty_select_ops) # {}
  THEN notify(s, s.tty_select_proc) ELSE s

(***************************************************************************)
(* handle_events                                                           *)
(***************************************************************************)
\* the loop of handle_events run once, without "while (tp->tty_events)"
handle_events_loop_once(s) ==
  LET ioctl(s2) == IF s2.tty_ioreq # 0 THEN dev_ioctl(s2) ELSE s2
  IN ioctl(dev_write(dev_read([s EXCEPT !.tty_events = FALSE])))

\* the do-while loop of handle_events
RECURSIVE handle_events_loop(_)
handle_events_loop(s) ==
  LET again(s3) == IF s3.tty_events THEN handle_events_loop(s3) ELSE s3
      ioctl(s2) == IF s2.tty_ioreq # 0 THEN dev_ioctl(s2) ELSE s2
  IN again(ioctl(dev_write(dev_read([s EXCEPT !.tty_events = FALSE]))))

\* handle_events without "Reply if enough bytes are available."
handle_events_no_reply(s) ==
  LET retry(s2) == IF s2.tty_select_ops # {} THEN select_retry(s2) ELSE s2
  IN retry(in_transfer(handle_events_loop(s)))

handle_events(s) ==
  LET retry(s2) == IF s2.tty_select_ops # {} THEN select_retry(s2) ELSE s2
      \* "Reply if enough bytes are available."
      reply(s1) ==
        IF s1.tty_incum >= s1.tty_min /\ s1.tty_inleft > 0
        THEN reply_reader(s1) ELSE s1
  IN retry(reply(in_transfer(handle_events_loop(s))))

(***************************************************************************)
(* Messages.  A request carries the fields of the table at the head of     *)
(* tty.c; a field a request does not use holds its zero.                   *)
(*   MODE     the bits of COUNT of DEV_OPEN (O_NOCTTY, R_BIT) and of       *)
(*            CANCEL (R_BIT, W_BIT)                                        *)
(*   ADDRESS  whether the caller's buffer can be mapped and copied         *)
(*   TERMIOS  the struct termios at ADDRESS (TCSETS, TCSETSW, TCSETSF)     *)
(*   PARAM    the int at ADDRESS (TCFLSH, TCFLOW)                          *)
(***************************************************************************)
Message(type, line, proc, count, flags, mode, req, termios, param, ok) ==
  [m_type |-> type, m_source |-> FS_PROC_NR, TTY_LINE |-> line,
   PROC_NR |-> proc, COUNT |-> count, TTY_FLAGS |-> flags, MODE |-> mode,
   REQUEST |-> req, TERMIOS |-> termios, PARAM |-> param, ADDRESS |-> ok]

NoMessage ==
  Message("NONE", "TTY", 0, 0, {}, {}, 0, termios_defaults, 0, TRUE)

\* the bits of the operations of DEV_SELECT, which travel in PROC_NR
SelBit == [SEL_RD |-> 1, SEL_WR |-> 2, SEL_ERR |-> 4, SEL_NOTIFY |-> 8]
SelOps == {"SEL_RD", "SEL_WR", "SEL_ERR"}
HasBit(n, o) == (n \div SelBit[o]) % 2 = 1
OpsOf(n) == {o \in SelOps : HasBit(n, o)}
BitsOf(ops) ==
  (IF "SEL_RD" \in ops THEN SelBit.SEL_RD ELSE 0)
  + (IF "SEL_WR" \in ops THEN SelBit.SEL_WR ELSE 0)
  + (IF "SEL_ERR" \in ops THEN SelBit.SEL_ERR ELSE 0)

(***************************************************************************)
(* do_status                                                               *)
(***************************************************************************)
status_reply(s, m, type, proc_nr, status) ==
  [s EXCEPT !.sent = Append(@, [m_type |-> type, to |-> m.m_source,
                               REP_PROC_NR |-> proc_nr,
                               REP_STATUS |-> status])]

\* do_status with "tp->tty_select_ops = 0" for "tp->tty_select_ops &= ~ops"
do_status_unmarks_all(s, m) ==
  LET ready(ops) ==
        status_reply([s EXCEPT !.tty_select_ops = {}], m,
                     "DEV_IO_READY", 0, BitsOf(ops))
  IN IF select_try(s, s.tty_select_ops) # {}
        /\ s.tty_select_proc = m.m_source
     THEN ready(select_try(s, s.tty_select_ops))
     ELSE IF s.tty_inrevived /\ s.tty_incaller = m.m_source
     THEN status_reply([s EXCEPT !.tty_inleft = 0, !.tty_incum = 0,
                                 !.tty_inrevived = FALSE], m,
                       "DEV_REVIVE", s.tty_inproc, s.tty_incum)
     ELSE IF s.tty_outrevived /\ s.tty_outcaller = m.m_source
     THEN status_reply([s EXCEPT !.tty_outcum = 0,
                                 !.tty_outrevived = FALSE], m,
                       "DEV_REVIVE", s.tty_outproc, s.tty_outcum)
     ELSE status_reply(s, m, "DEV_NO_STATUS", 0, 0)

do_status(s, m) ==
  LET ready(ops) ==
        status_reply([s EXCEPT !.tty_select_ops = @ \ ops], m,
                     "DEV_IO_READY", 0, BitsOf(ops))
  IN IF select_try(s, s.tty_select_ops) # {}
        /\ s.tty_select_proc = m.m_source
     THEN ready(select_try(s, s.tty_select_ops))
     ELSE IF s.tty_inrevived /\ s.tty_incaller = m.m_source
     THEN status_reply([s EXCEPT !.tty_inleft = 0, !.tty_incum = 0,
                                 !.tty_inrevived = FALSE], m,
                       "DEV_REVIVE", s.tty_inproc, s.tty_incum)
     ELSE IF s.tty_outrevived /\ s.tty_outcaller = m.m_source
     THEN status_reply([s EXCEPT !.tty_outcum = 0,
                                 !.tty_outrevived = FALSE], m,
                       "DEV_REVIVE", s.tty_outproc, s.tty_outcum)
     ELSE status_reply(s, m, "DEV_NO_STATUS", 0, 0)

(***************************************************************************)
(* do_read                                                                 *)
(***************************************************************************)
\* "Copy information from the message to the tty struct."  tty_in_vir is
\* kept as the offset from the ADDRESS of the message.
read_accept(s, m) ==
  [s EXCEPT !.tty_inrepcode = "TASK_REPLY",
            !.tty_incaller = m.m_source,
            !.tty_inproc = m.PROC_NR,
            !.tty_in_vir = 0,
            !.tty_inleft = m.COUNT]

\* the MIN and TIME part of do_read
read_timer(s) ==
  LET t == s.tty_termios
  IN IF ~Has(t.c_lflag, "ICANON") /\ t.c_cc.VTIME > 0
     THEN IF t.c_cc.VMIN = 0
          THEN [settimer(s, TRUE) EXCEPT !.tty_min = 1]
          ELSE IF s.tty_eotct = 0
               THEN [settimer(s, FALSE) EXCEPT !.tty_min = t.c_cc.VMIN]
               ELSE s
     ELSE s

\* do_read with the test of COUNT ahead of the test of tty_inleft
do_read_checks_count_first(s, m) ==
  LET answer(x, r) == tty_reply(x, "TASK_REPLY", m.m_source, m.PROC_NR, r)
      finish(s2) ==
        IF s2.tty_inleft = 0 THEN s2
        ELSE IF Has(m.TTY_FLAGS, "O_NONBLOCK")
        THEN answer([s2 EXCEPT !.tty_inleft = 0, !.tty_incum = 0], EAGAIN)
        ELSE answer([s2 EXCEPT !.tty_inrepcode = "REVIVE"], SUSPEND)
  IN IF m.COUNT <= 0 THEN answer(s, EINVAL)
     ELSE IF s.tty_inleft > 0 THEN answer(s, EIO)
     ELSE IF ~m.ADDRESS THEN answer(s, EFAULT)
     ELSE finish(handle_events(in_transfer(read_timer(read_accept(s, m)))))

\* do_read without "tp->tty_inleft = tp->tty_incum = 0" on EAGAIN
do_read_keeps_cancelled(s, m) ==
  LET retry(x) == IF x.tty_select_ops # {} THEN select_retry(x) ELSE x
      answer(x, r) == tty_reply(x, "TASK_REPLY", m.m_source, m.PROC_NR, r)
      finish(s2) ==
        IF s2.tty_inleft = 0 THEN s2
        ELSE IF Has(m.TTY_FLAGS, "O_NONBLOCK")
        THEN answer(s2, EAGAIN)
        ELSE answer([s2 EXCEPT !.tty_inrepcode = "REVIVE"], SUSPEND)
  IN retry(IF s.tty_inleft > 0 THEN answer(s, EIO)
           ELSE IF m.COUNT <= 0 THEN answer(s, EINVAL)
           ELSE IF ~m.ADDRESS THEN answer(s, EFAULT)
           ELSE finish(handle_events(in_transfer(
                         read_timer(read_accept(s, m))))))

do_read(s, m) ==
  LET retry(x) == IF x.tty_select_ops # {} THEN select_retry(x) ELSE x
      answer(x, r) == tty_reply(x, "TASK_REPLY", m.m_source, m.PROC_NR, r)
      \* what follows handle_events
      finish(s2) ==
        IF s2.tty_inleft = 0 THEN s2
        ELSE IF Has(m.TTY_FLAGS, "O_NONBLOCK")
        THEN answer([s2 EXCEPT !.tty_inleft = 0, !.tty_incum = 0], EAGAIN)
        ELSE answer([s2 EXCEPT !.tty_inrepcode = "REVIVE"], SUSPEND)
  IN retry(IF s.tty_inleft > 0 THEN answer(s, EIO)
           ELSE IF m.COUNT <= 0 THEN answer(s, EINVAL)
           ELSE IF ~m.ADDRESS THEN answer(s, EFAULT)
           ELSE finish(handle_events(in_transfer(
                         read_timer(read_accept(s, m))))))

(***************************************************************************)
(* do_write                                                                *)
(***************************************************************************)
do_write(s, m) ==
  LET answer(x, r) == tty_reply(x, "TASK_REPLY", m.m_source, m.PROC_NR, r)
      \* what follows handle_events
      finish(s2) ==
        IF s2.tty_outleft = 0 THEN s2
        ELSE IF Has(m.TTY_FLAGS, "O_NONBLOCK")
        THEN answer([s2 EXCEPT !.tty_outleft = 0, !.tty_outcum = 0],
                    IF s2.tty_outcum > 0 THEN s2.tty_outcum ELSE EAGAIN)
        ELSE answer([s2 EXCEPT !.tty_outrepcode = "REVIVE"], SUSPEND)
  IN IF s.tty_outleft > 0 THEN answer(s, EIO)
     ELSE IF m.COUNT <= 0 THEN answer(s, EINVAL)
     ELSE IF ~m.ADDRESS THEN answer(s, EFAULT)
     ELSE finish(handle_events([s EXCEPT !.tty_outrepcode = "TASK_REPLY",
                                         !.tty_outcaller = m.m_source,
                                         !.tty_outproc = m.PROC_NR,
                                         !.tty_out_vir = 0,
                                         !.tty_outleft = m.COUNT]))

(***************************************************************************)
(* do_ioctl                                                                *)
(***************************************************************************)
\* "case TCSETS:" of do_ioctl, which TCSETSW and TCSETSF fall through to
ioctl_tcsets(s, m) ==
  IF ~m.ADDRESS THEN [s |-> s, r |-> EFAULT]
  ELSE [s |-> setattr([s EXCEPT !.tty_termios = m.TERMIOS]), r |-> OK]

\* "case TCSETSW: case TCSETSF: case TCDRAIN:" of do_ioctl, without
\* "if (tp->tty_outleft > 0)": the request always waits
ioctl_drain_always_waits(s, m) ==
  [s |-> [s EXCEPT !.tty_iocaller = m.m_source,
                   !.tty_ioproc = m.PROC_NR,
                   !.tty_ioreq = m.REQUEST,
                   !.tty_iovir = m.TERMIOS],
   r |-> SUSPEND]

\* "case TCSETSW: case TCSETSF: case TCDRAIN:" of do_ioctl
ioctl_drain(s, m) ==
  IF s.tty_outleft > 0
  THEN [s |-> [s EXCEPT !.tty_iocaller = m.m_source,
                        !.tty_ioproc = m.PROC_NR,
                        !.tty_ioreq = m.REQUEST,
                        !.tty_iovir = m.TERMIOS],
        r |-> SUSPEND]
  ELSE IF m.REQUEST = TCDRAIN THEN [s |-> s, r |-> OK]
  ELSE ioctl_tcsets(IF m.REQUEST = TCSETSF THEN tty_icancel(s) ELSE s, m)

\* the switch of do_ioctl; returns [s |-> the line, r |-> the status]
ioctl_switch(s, m) ==
  LET req == m.REQUEST
      copy == IF m.ADDRESS THEN OK ELSE EFAULT
  IN IF req = TCGETS
     THEN [s |-> IF m.ADDRESS
                 THEN [s EXCEPT !.iobuf = Append(@, s.tty_termios)] ELSE s,
           r |-> copy]
     ELSE IF req \in {TCSETSW, TCSETSF, TCDRAIN} THEN ioctl_drain(s, m)
     ELSE IF req = TCSETS THEN ioctl_tcsets(s, m)
     ELSE IF req = TCFLSH
     THEN IF ~m.ADDRESS THEN [s |-> s, r |-> EFAULT]
          ELSE IF m.PARAM = TCIFLUSH
          THEN [s |-> tty_icancel(s), r |-> OK]
          ELSE IF m.PARAM = TCOFLUSH
          THEN [s |-> dev_ocancel(s), r |-> OK]
          ELSE IF m.PARAM = TCIOFLUSH
          THEN [s |-> dev_ocancel(tty_icancel(s)), r |-> OK]
          ELSE [s |-> s, r |-> EINVAL]
     ELSE IF req = TCFLOW
     THEN IF ~m.ADDRESS THEN [s |-> s, r |-> EFAULT]
          ELSE IF m.PARAM \in {TCOOFF, TCOON}
          THEN [s |-> [s EXCEPT !.tty_inhibited = (m.PARAM = TCOOFF),
                                !.tty_events = TRUE],
                r |-> OK]
          ELSE IF m.PARAM = TCIOFF
          THEN [s |-> dev_echo(s, s.tty_termios.c_cc.VSTOP), r |-> OK]
          ELSE IF m.PARAM = TCION
          THEN [s |-> dev_echo(s, s.tty_termios.c_cc.VSTART), r |-> OK]
          ELSE [s |-> s, r |-> EINVAL]
     ELSE IF req = TCSBRK THEN [s |-> s, r |-> OK]
     ELSE IF req = TIOCGWINSZ
     THEN [s |-> IF m.ADDRESS
                 THEN [s EXCEPT !.iobuf = Append(@, s.tty_winsize)] ELSE s,
           r |-> copy]
     ELSE IF req = TIOCSWINSZ
     THEN [s |-> IF m.ADDRESS
                 THEN [s EXCEPT !.tty_winsize =
                         [ws_row |-> m.PARAM, ws_col |-> m.PARAM]]
                 ELSE s,
           r |-> copy]
     ELSE [s |-> s, r |-> ENOTTY]

do_ioctl(s, m) ==
  LET reply(x) == tty_reply(x.s, "TASK_REPLY", m.m_source, m.PROC_NR, x.r)
  IN reply(ioctl_switch(s, m))

(***************************************************************************)
(* do_open, do_close, do_cancel, do_select                                 *)
(***************************************************************************)
do_open(s, m) ==
  LET ctty == ~Has(m.MODE, "O_NOCTTY")
      s1 == IF ctty THEN [s EXCEPT !.tty_pgrp = m.PROC_NR] ELSE s
  IN IF m.TTY_LINE = "LOG"
     THEN tty_reply(s, "TASK_REPLY", m.m_source, m.PROC_NR,
                    IF Has(m.MODE, "R_BIT") THEN EACCES ELSE OK)
     ELSE tty_reply([s1 EXCEPT !.tty_openct = @ + 1], "TASK_REPLY",
                    m.m_source, m.PROC_NR, IF ctty THEN 1 ELSE OK)

do_close(s, m) ==
  LET answer(x) == tty_reply(x, "TASK_REPLY", m.m_source, m.PROC_NR, OK)
  IN IF m.TTY_LINE = "LOG" THEN answer(s)
     ELSE IF s.tty_openct - 1 # 0
     THEN answer([s EXCEPT !.tty_openct = @ - 1])
     ELSE answer(setattr(
            [dev_ocancel(tty_icancel([s EXCEPT !.tty_openct = @ - 1,
                                               !.tty_pgrp = 0]))
               EXCEPT !.tty_termios = termios_defaults,
                      !.tty_winsize = winsize_defaults]))

\* do_cancel without the tests "proc_nr == tp->tty_inproc" and
\* "proc_nr == tp->tty_outproc"
do_cancel_any_proc(s, m) ==
  LET proc_nr == m.PROC_NR
      mode == m.MODE
      reader(x) ==
        IF Has(mode, "R_BIT") /\ x.tty_inleft # 0
        THEN [tty_icancel(x) EXCEPT !.tty_inleft = 0, !.tty_incum = 0]
        ELSE x
      writer(x) ==
        IF Has(mode, "W_BIT") /\ x.tty_outleft # 0
        THEN [dev_ocancel(x) EXCEPT !.tty_outleft = 0, !.tty_outcum = 0]
        ELSE x
      ioctl(x) ==
        IF x.tty_ioreq # 0 /\ proc_nr = x.tty_ioproc
        THEN [x EXCEPT !.tty_ioreq = 0] ELSE x
  IN tty_reply([ioctl(writer(reader(s))) EXCEPT !.tty_events = TRUE],
               "TASK_REPLY", m.m_source, proc_nr, EINTR)

do_cancel(s, m) ==
  LET proc_nr == m.PROC_NR
      mode == m.MODE
      reader(x) ==
        IF Has(mode, "R_BIT") /\ x.tty_inleft # 0 /\ proc_nr = x.tty_inproc
        THEN [tty_icancel(x) EXCEPT !.tty_inleft = 0, !.tty_incum = 0]
        ELSE x
      writer(x) ==
        IF Has(mode, "W_BIT") /\ x.tty_outleft # 0
           /\ proc_nr = x.tty_outproc
        THEN [dev_ocancel(x) EXCEPT !.tty_outleft = 0, !.tty_outcum = 0]
        ELSE x
      ioctl(x) ==
        IF x.tty_ioreq # 0 /\ proc_nr = x.tty_ioproc
        THEN [x EXCEPT !.tty_ioreq = 0] ELSE x
  IN tty_reply([ioctl(writer(reader(s))) EXCEPT !.tty_events = TRUE],
               "TASK_REPLY", m.m_source, proc_nr, EINTR)

\* do_select without "!ready_ops &&": it records the subscription also
\* when an operation is ready
do_select_always_records(s, m) ==
  LET ops == OpsOf(m.PROC_NR)
      watch == HasBit(m.PROC_NR, "SEL_NOTIFY")
      ready_ops == select_try(s, ops)
  IN tty_reply(IF ops # {} /\ watch
               THEN [s EXCEPT !.tty_select_ops = @ \cup ops,
                              !.tty_select_proc = m.m_source]
               ELSE s,
               "TASK_REPLY", m.m_source, m.PROC_NR, BitsOf(ready_ops))

do_select(s, m) ==
  LET ops == OpsOf(m.PROC_NR)
      watch == HasBit(m.PROC_NR, "SEL_NOTIFY")
      ready_ops == select_try(s, ops)
  IN tty_reply(IF ready_ops = {} /\ ops # {} /\ watch
               THEN [s EXCEPT !.tty_select_ops = @ \cup ops,
                              !.tty_select_proc = m.m_source]
               ELSE s,
               "TASK_REPLY", m.m_source, m.PROC_NR, BitsOf(ready_ops))

(***************************************************************************)
(* main: one iteration of its loop.                                        *)
(***************************************************************************)
\* nothing has been sent, signalled, echoed or copied out yet
begin(s) ==
  [s EXCEPT !.sent = << >>, !.sigs = << >>, !.echo = << >>,
            !.ubuf = << >>, !.iobuf = << >>]

\* "Check for and handle any events on any of the ttys."
main_events(s) == IF s.tty_events THEN handle_events(s) ELSE s

\* The values the reply of dev_ioctl may carry where the code leaves
\* `result' unassigned.
Garbage == {OK, EINTR}

RECURSIVE resolve(_, _)
resolve(sent, v) ==
  IF sent = << >> THEN << >>
  ELSE << IF Head(sent).REP_STATUS = UNINIT
          THEN [Head(sent) EXCEPT !.REP_STATUS = v] ELSE Head(sent) >>
       \o resolve(Tail(sent), v)

\* the states an iteration of main() may end in
Outcomes(s) ==
  IF \E i \in 1 .. Len(s.sent) : s.sent[i].REP_STATUS = UNINIT
  THEN {[s EXCEPT !.sent = resolve(@, v)] : v \in Garbage}
  ELSE {s}

\* the message m is received and handled, which leaves the line as `after';
\* the loop of main() then handles the events that are pending
Iteration(m, after) ==
  /\ tty' \in Outcomes(main_events(after))
  /\ msg' = m

ReadMsg(p, n, nb, ok) ==
  Message("DEV_READ", "TTY", p, n, IF nb THEN {"O_NONBLOCK"} ELSE {}, {},
          0, termios_defaults, 0, ok)
WriteMsg(p, n, nb, ok) ==
  Message("DEV_WRITE", "TTY", p, n, IF nb THEN {"O_NONBLOCK"} ELSE {}, {},
          0, termios_defaults, 0, ok)
IoctlMsg(p, req, t, param, ok) ==
  Message("DEV_IOCTL", "TTY", p, 0, {}, {}, req, t, param, ok)
OpenMsg(line, p, mode) ==
  Message("DEV_OPEN", line, p, 0, {}, mode, 0, termios_defaults, 0, TRUE)
CloseMsg(line, p) ==
  Message("DEV_CLOSE", line, p, 0, {}, {}, 0, termios_defaults, 0, TRUE)
CancelMsg(p, mode) ==
  Message("CANCEL", "TTY", p, 0, {}, mode, 0, termios_defaults, 0, TRUE)
SelectMsg(bits) ==
  Message("DEV_SELECT", "TTY", bits, 0, {}, {}, 0, termios_defaults, 0, TRUE)
StatusMsg ==
  Message("DEV_STATUS", "TTY", 0, 0, {}, {}, 0, termios_defaults, 0, TRUE)
AlarmMsg ==
  Message("SYN_ALARM", "TTY", 0, 0, {}, {}, 0, termios_defaults, 0, TRUE)
HardIntMsg ==
  Message("HARD_INT", "TTY", 0, 0, {}, {}, 0, termios_defaults, 0, TRUE)

DevRead(p, n, nb, ok) ==
  LET m == ReadMsg(p, n, nb, ok) IN Iteration(m, do_read(begin(tty), m))

\* tty_outcum, which do_write does not reset, is kept within 2 * MaxCount
DevWrite(p, n, nb, ok) ==
  /\ tty.tty_outcum <= MaxCount
  /\ LET m == WriteMsg(p, n, nb, ok)
     IN Iteration(m, do_write(begin(tty), m))

DevIoctl(p, req, t, param, ok) ==
  LET m == IoctlMsg(p, req, t, param, ok)
  IN Iteration(m, do_ioctl(begin(tty), m))

DevOpen(line, p, mode) ==
  /\ tty.tty_openct < MaxOpen
  /\ LET m == OpenMsg(line, p, mode) IN Iteration(m, do_open(begin(tty), m))

DevClose(line, p) ==
  /\ tty.tty_openct > -MaxOpen
  /\ LET m == CloseMsg(line, p) IN Iteration(m, do_close(begin(tty), m))

Cancel(p, mode) ==
  LET m == CancelMsg(p, mode) IN Iteration(m, do_cancel(begin(tty), m))

DevSelect(bits) ==
  LET m == SelectMsg(bits) IN Iteration(m, do_select(begin(tty), m))

DevStatus == Iteration(StatusMsg, do_status(begin(tty), StatusMsg))

\* SYN_ALARM: the alarm set for the timer of the line has gone off
SynAlarm ==
  /\ tty.tty_tmr
  /\ Iteration(AlarmMsg, expire_timers(begin(tty), TRUE))

\* HARD_INT, input: the device, which holds one character until devread
\* has taken it, has received the character c
HardIntInput(c, due) ==
  /\ tty.dev_in = << >>
  /\ due => tty.tty_tmr
  /\ Iteration(HardIntMsg,
               expire_timers([begin(tty) EXCEPT !.dev_in = Append(@, c),
                                                !.tty_events = TRUE], due))

\* HARD_INT whose interrupt handler (kbd_interrupt, rs_interrupt) has
\* fetched the characters buf for the line
InputMsg(buf) == [CHARS |-> buf] @@ HardIntMsg

\* HARD_INT, input: the device, which held nothing, has received buf
Input(buf) ==
  /\ tty.dev_in = << >>
  /\ Iteration(InputMsg(buf),
               expire_timers([begin(tty) EXCEPT !.dev_in = buf,
                                                !.tty_events = TRUE], FALSE))

\* HARD_INT, output: the device has sent out what it held
HardIntOutput(due) ==
  /\ tty.dev_room < DevRoom
  /\ due => tty.tty_tmr
  /\ Iteration(HardIntMsg,
               expire_timers([begin(tty) EXCEPT !.dev_room = DevRoom,
                                                !.tty_events = TRUE], due))

(***************************************************************************)
(* What the last iteration of main() answered.                             *)
(***************************************************************************)
\* the statuses of the replies of type `type' in the messages sent
StatusesOf(t, type) ==
  {t.sent[i].REP_STATUS :
     i \in {j \in 1 .. Len(t.sent) : t.sent[j].m_type = type}}

\* the statuses of the direct replies (tty_reply with TASK_REPLY)
Answers == StatusesOf(tty, "TASK_REPLY")

\* the reader slot holds no request: nothing is left to read and no
\* revived reader waits for DEV_STATUS to collect it
ReaderFree(t) == t.tty_inleft = 0 /\ ~t.tty_inrevived

\* a DEV_READ with valid parameters
ValidRead(m) == m.m_type = "DEV_READ" /\ m.COUNT > 0 /\ m.ADDRESS

(***************************************************************************)
(* Spec: one reader on a line that is switched between canonical mode and  *)
(* raw mode with MIN and TIME, with input, erase and interrupt characters, *)
(* timer expiries, flushes and cancelled reads.  The line starts with its  *)
(* echo turned off by a TCSETS.                                            *)
(***************************************************************************)
Canon ==
  [termios_defaults EXCEPT !.c_lflag = {"ISIG", "ICANON"}, !.c_iflag = {}]

RawSig == [RawTermios(1, 1) EXCEPT !.c_lflag = {"ISIG"}]

\* 'a', newline, the erase character and the interrupt character
Chars == {97, 10, cc_defaults.VERASE, cc_defaults.VINTR}

SetCanon == IoctlMsg(11, TCSETS, Canon, 0, TRUE)

\* the line after process 11 has opened it as its controlling tty
Opened == main_events(do_open(begin(tty_init), OpenMsg("TTY", 11, {})))

Init ==
  /\ tty = main_events(do_ioctl(begin(Opened), SetCanon))
  /\ msg = SetCanon

Next ==
  \/ \E n \in {1, MaxCount} : DevRead(11, n, FALSE, TRUE)
  \/ Cancel(11, {"R_BIT"})
  \/ DevStatus
  \/ SynAlarm
  \/ \E c \in Chars : HardIntInput(c, FALSE)
  \/ \E t \in {Canon, RawSig} : DevIoctl(11, TCSETS, t, 0, TRUE)
  \/ DevIoctl(11, TCFLSH, termios_defaults, TCIFLUSH, TRUE)

Spec == Init /\ [][Next]_vars

\* C1: in every reachable state of the line the input queue satisfies
\* 0 <= eot_count <= count <= capacity.
C1_QueueCounts ==
  /\ 0 <= tty.tty_eotct
  /\ tty.tty_eotct <= tty.tty_incount
  /\ tty.tty_incount <= InBufLen

\* in_process has filled the queue, which holds a line break followed by
\* a character that is not one
C1_Witness ==
  /\ msg.m_type = "HARD_INT"
  /\ tty.tty_incount = InBufLen
  /\ tty.tty_eotct > 0
  /\ tty.tty_eotct < tty.tty_incount

\* C2: in every reachable state head = (tail + count) mod capacity.
C2_HeadTail ==
  tty.tty_inhead = (tty.tty_intail + tty.tty_incount) % InBufLen

\* sigchar has flushed a queue that held a character and whose tail had
\* moved on from the start of the buffer
C2_Witness ==
  /\ msg.m_type = "HARD_INT"
  /\ tty.sigs # << >>
  /\ tty.tty_incount = 0
  /\ tty.tty_intail # 0
  /\ tty.tty_inbuf[PrevIdx(tty.tty_inhead)].ch = 97

(***************************************************************************)
(* ReadSpec: two processes read from a canonical line, blocking and not,   *)
(* with valid and invalid requests, while input arrives and reads are      *)
(* cancelled and collected.                                                *)
(***************************************************************************)
ReadNext ==
  \/ \E p \in Procs, n \in {0, 1, MaxCount}, nb \in BOOLEAN :
       DevRead(p, n, nb, TRUE)
  \/ \E p \in Procs : DevRead(p, 1, FALSE, FALSE)
  \/ \E p \in Procs : Cancel(p, {"R_BIT"})
  \/ DevStatus
  \/ \E c \in {97, 10} : HardIntInput(c, FALSE)

ReadSpec == Init /\ [][ReadNext]_vars

\* the reader slot, the input queue, and the min and timer of the line
ReaderAndQueue(t) ==
  << t.tty_inleft, t.tty_incum, t.tty_in_vir, t.tty_inproc, t.tty_incaller,
     t.tty_inrepcode, t.tty_inrevived, t.tty_inbuf, t.tty_inhead,
     t.tty_intail, t.tty_incount, t.tty_eotct, t.tty_min, t.tty_tmr >>

\* the reply tty_reply sends to the sender of m with status r
ReplyTo(m, r) ==
  [m_type |-> "TASK_REPLY", to |-> m.m_source, REP_PROC_NR |-> m.PROC_NR,
   REP_STATUS |-> r]

\* C3: a DEV_READ that arrives while the reader slot has leftover > 0 is
\* answered EIO and changes no field of the reader slot, of the queue, or
\* the min and timer of the line.
C3_BusyReadRefused ==
  [][(msg'.m_type = "DEV_READ" /\ tty.tty_inleft > 0)
       => /\ tty'.sent = << ReplyTo(msg', EIO) >>
          /\ ReaderAndQueue(tty') = ReaderAndQueue(tty)]_vars

\* a READ of another process has been refused while a reader is suspended
C3_Witness ==
  /\ msg.m_type = "DEV_READ"
  /\ tty.sent = << ReplyTo(msg, EIO) >>
  /\ tty.tty_inleft > 0
  /\ tty.tty_inrepcode = "REVIVE"
  /\ tty.tty_inproc # msg.PROC_NR

\* C4: at most one READ is outstanding: a READ that arrives while a
\* suspended reader has been marked revived but has not been collected by
\* DEV_STATUS is answered EIO.
C4_OneReader ==
  (ValidRead(msg) /\ tty.tty_inrevived) => Answers = {EIO}

(***************************************************************************)
(* OpenSpec: DEV_OPEN and DEV_CLOSE in any order on a line and on the log  *)
(* device.                                                                 *)
(***************************************************************************)
OpenInit == tty = tty_init /\ msg = NoMessage

OpenNext ==
  \/ \E line \in {"TTY", "LOG"}, p \in Procs,
        mode \in {{}, {"O_NOCTTY"}, {"R_BIT"}} : DevOpen(line, p, mode)
  \/ \E line \in {"TTY", "LOG"}, p \in Procs : DevClose(line, p)

OpenSpec == OpenInit /\ [][OpenNext]_vars

\* C5: after any sequence of DEV_OPEN and DEV_CLOSE requests, pgrp # 0
\* implies open_count > 0.
C5_PgrpImpliesOpen == tty.tty_pgrp # 0 => tty.tty_openct > 0

(***************************************************************************)
(* WriteSpec: writes that the device takes piece by piece, and the ioctls  *)
(* that wait for output to drain.                                          *)
(***************************************************************************)
DrainRequests == {TCSETSW, TCSETSF, TCDRAIN}

WriteNext ==
  \/ \E p \in Procs, n \in 1 .. MaxCount, nb \in BOOLEAN :
       DevWrite(p, n, nb, TRUE)
  \/ \E p \in Procs, req \in DrainRequests, t \in {termios_defaults, Canon} :
       DevIoctl(p, req, t, 0, TRUE)
  \/ \E p \in Procs : Cancel(p, {"W_BIT"})
  \/ DevStatus
  \/ HardIntOutput(FALSE)

WriteSpec == Init /\ [][WriteNext]_vars

\* the drain-ioctl slot of the line
DrainSlot(t) == << t.tty_ioreq, t.tty_ioproc, t.tty_iocaller, t.tty_iovir >>

\* C6: the drain-ioctl slot is set only by a TCSETSW, TCSETSF or TCDRAIN
\* that arrives while writer.leftover > 0; one that arrives while
\* writer.leftover = 0 is executed at once and leaves the slot empty.
C6_DrainSlot ==
  [][/\ (tty'.tty_ioreq # 0 /\ DrainSlot(tty') # DrainSlot(tty))
          => /\ msg'.m_type = "DEV_IOCTL"
             /\ msg'.REQUEST \in DrainRequests
             /\ tty.tty_outleft > 0
     /\ (msg'.m_type = "DEV_IOCTL" /\ msg'.REQUEST \in DrainRequests
           /\ tty.tty_outleft = 0)
          => /\ tty'.tty_ioreq = 0
             /\ tty'.sent = << ReplyTo(msg', OK) >>
             /\ msg'.REQUEST # TCDRAIN => tty'.tty_termios = msg'.TERMIOS
    ]_vars

\* a TCSETSW that arrived while a writer had output left waits in the slot
C6_Witness ==
  /\ msg.m_type = "DEV_IOCTL"
  /\ msg.REQUEST = TCSETSW
  /\ tty.sent = << ReplyTo(msg, SUSPEND) >>
  /\ tty.tty_ioreq = TCSETSW
  /\ tty.tty_outleft > 0

(***************************************************************************)
(* TimerSpec: a raw line with MIN = MaxCount and TIME > 0, its inter-byte  *)
(* timer, and one reader.                                                  *)
(***************************************************************************)
SetRawTimer == IoctlMsg(11, TCSETS, RawTermios(MaxCount, 1), 0, TRUE)

TimerInit ==
  /\ tty = main_events(do_ioctl(begin(Opened), SetRawTimer))
  /\ msg = SetRawTimer

TimerNext ==
  \/ \E n \in {1, MaxCount} : DevRead(11, n, FALSE, TRUE)
  \/ Cancel(11, {"R_BIT"})
  \/ DevStatus
  \/ SynAlarm
  \/ HardIntInput(97, FALSE)

TimerSpec == TimerInit /\ [][TimerNext]_vars

\* C7: in raw mode with MIN > 0 and TIME > 0 on a line that is not hung
\* up, a READ of at least MIN bytes is not answered with fewer than MIN
\* bytes while the inter-byte timer is still running.
C7_NoEarlyFinish ==
  LET cc == tty.tty_termios.c_cc
  IN (/\ ValidRead(msg)
      /\ ~Has(tty.tty_termios.c_lflag, "ICANON")
      /\ tty.tty_termios.c_ospeed # B0
      /\ cc.VMIN > 0 /\ cc.VTIME > 0
      /\ msg.COUNT >= cc.VMIN
      /\ \E r \in Answers : 0 <= r /\ r < cc.VMIN)
     => ~tty.tty_tmr

(***************************************************************************)
(* TimeoutSpec: a raw line with MIN = 0 and TIME > 0 and one reader, whose *)
(* attributes may be set again while the reader waits.                     *)
(***************************************************************************)
SetRawTimeout == IoctlMsg(11, TCSETS, RawTermios(0, 1), 0, TRUE)

TimeoutInit ==
  /\ tty = main_events(do_ioctl(begin(Opened), SetRawTimeout))
  /\ msg = SetRawTimeout

TimeoutNext ==
  \/ \E n \in 1 .. MaxCount : DevRead(11, n, FALSE, TRUE)
  \/ Cancel(11, {"R_BIT"})
  \/ DevStatus
  \/ SynAlarm
  \/ HardIntInput(97, FALSE)
  \/ DevIoctl(11, TCSETS, RawTermios(0, 1), 0, TRUE)

TimeoutSpec == TimeoutInit /\ [][TimeoutNext]_vars

\* a READ has been suspended and has not been completed
ReadPending == tty.tty_inleft > 0 /\ ~tty.tty_inrevived

\* C8: in raw mode with MIN = 0 and TIME > 0 a blocking READ arms the
\* timer and always eventually completes: as long as the READ is pending
\* the timer is running, so that its alarm will complete the READ.  (In a
\* state that violates this no alarm is due, and the READ waits for as
\* long as no byte arrives.)
C8_PendingReadHasTimer == ReadPending => tty.tty_tmr

(***************************************************************************)
(* ModeSpec: reads, blocking and not, on a line that is switched between   *)
(* canonical mode, raw mode with MIN = 0 and TIME = 0, and hung up.        *)
(***************************************************************************)
Modes ==
  {Canon, RawTermios(0, 0), HungUp(Canon), HungUp(RawTermios(1, 0))}

ModeNext ==
  \/ \E n \in {1, MaxCount}, nb \in BOOLEAN : DevRead(11, n, nb, TRUE)
  \/ DevStatus
  \/ \E c \in {97, 10} : HardIntInput(c, FALSE)
  \/ \E t \in Modes : DevIoctl(11, TCSETS, t, 0, TRUE)

ModeSpec == Init /\ [][ModeNext]_vars

\* raw mode with MIN = 0 and TIME = 0
Immediate(t) ==
  /\ ~Has(t.tty_termios.c_lflag, "ICANON")
  /\ t.tty_termios.c_cc.VMIN = 0
  /\ t.tty_termios.c_cc.VTIME = 0

\* C9: in raw mode with MIN = 0 and TIME = 0 a valid READ on a free reader
\* slot is answered within its handling, never SUSPEND or EAGAIN, with the
\* number of bytes delivered, and the slot is free afterwards.
C9_ImmediateRead ==
  [][(ValidRead(msg') /\ ReaderFree(tty) /\ Immediate(tty))
       => /\ tty'.sent = << ReplyTo(msg', Len(tty'.ubuf)) >>
          /\ ReaderFree(tty')
          /\ tty'.tty_incum = 0]_vars

\* such a READ has been answered with the two bytes that were queued
C9_Witness ==
  /\ ValidRead(msg)
  /\ Immediate(tty)
  /\ Len(tty.ubuf) = 2
  /\ tty.sent = << ReplyTo(msg, 2) >>
  /\ ReaderFree(tty)

\* C10: while the line is hung up a valid READ on a free reader slot is
\* answered within its handling, never SUSPEND or EAGAIN, and with count 0
\* when no input is queued.
C10_HungUpRead ==
  [][(ValidRead(msg') /\ ReaderFree(tty) /\ tty.tty_termios.c_ospeed = B0)
       => /\ tty'.sent = << ReplyTo(msg', Len(tty'.ubuf)) >>
          /\ ReaderFree(tty')
          /\ tty.tty_incount = 0 => tty'.sent = << ReplyTo(msg', 0) >>]_vars

\* a blocking READ on a hung up canonical line with no input queued has
\* been answered with count 0
C10_Witness ==
  /\ ValidRead(msg)
  /\ msg.TTY_FLAGS = {}
  /\ tty.tty_termios.c_ospeed = B0
  /\ Has(tty.tty_termios.c_lflag, "ICANON")
  /\ tty.tty_incount = 0
  /\ tty.sent = << ReplyTo(msg, 0) >>
  /\ ReaderFree(tty)

(***************************************************************************)
(* The input queue as a sequence, oldest cell first.                       *)
(***************************************************************************)
QueueCells(t) ==
  [i \in 1 .. t.tty_incount |->
     t.tty_inbuf[(t.tty_intail + i - 1) % InBufLen]]

QueueChars(t) == [i \in 1 .. t.tty_incount |-> QueueCells(t)[i].ch]

\* the message is a HARD_INT that brought characters
IsInput(m) == m.m_type = "HARD_INT" /\ "CHARS" \in DOMAIN m

\* the sequences of 1 to n elements of S
RECURSIVE SeqsUpTo(_, _)
SeqsUpTo(S, n) ==
  IF n = 0 THEN {}
  ELSE LET shorter == SeqsUpTo(S, n - 1)
       IN {<< c >> : c \in S}
          \cup shorter
          \cup {Append(q, c) : q \in shorter, c \in S}

(***************************************************************************)
(* RawSpec: a raw line with MIN = N, TIME = 0 and no input processing;     *)
(* bytes that are special in other modes arrive and are read.              *)
(***************************************************************************)
RawModes == {RawTermios(n, 0) : n \in 1 .. InBufLen}

\* INTR and _POSIX_VDISABLE
RawBytes == {cc_defaults.VINTR, POSIX_VDISABLE}

RawInit ==
  \E t \in RawModes :
    /\ tty = main_events(do_ioctl(begin(Opened),
                                  IoctlMsg(11, TCSETS, t, 0, TRUE)))
    /\ msg = IoctlMsg(11, TCSETS, t, 0, TRUE)

RawNext ==
  \/ \E buf \in SeqsUpTo(RawBytes, InBufLen) : Input(buf)
  \/ \E n \in 1 .. InBufLen : DevRead(11, n, FALSE, TRUE)
  \/ DevStatus

RawSpec == RawInit /\ [][RawNext]_vars

\* C11: on a raw line with MIN = N, TIME = 0 and no input processing,
\* bytes fed through in_process while no reader waits and the queue has
\* room for them are queued behind the bytes already there, unchanged and
\* in order; and a READ of N bytes that finds N bytes queued, and none
\* held back by the device, delivers those N bytes in order, is answered
\* with count N and leaves the queue empty.
C11_FeedThenRead ==
  /\ [][(/\ IsInput(msg')
         /\ ReaderFree(tty)
         /\ tty.tty_incount + Len(msg'.CHARS) <= InBufLen)
        => /\ QueueChars(tty') = QueueChars(tty) \o msg'.CHARS
           /\ tty'.tty_eotct = tty'.tty_incount
           /\ tty'.sent = << >>]_vars
  /\ [][(/\ ValidRead(msg')
         /\ ReaderFree(tty)
         /\ msg'.COUNT = tty.tty_termios.c_cc.VMIN
         /\ tty.tty_incount = msg'.COUNT
         /\ tty.dev_in = << >>)
        => /\ tty'.ubuf = QueueChars(tty)
           /\ tty'.sent = << ReplyTo(msg', msg'.COUNT) >>
           /\ tty'.tty_incount = 0
           /\ ReaderFree(tty')]_vars

\* a READ of InBufLen bytes has been answered with the bytes that filled
\* the queue, _POSIX_VDISABLE and INTR among them
C11_Witness ==
  /\ ValidRead(msg)
  /\ msg.COUNT = InBufLen
  /\ tty.tty_termios.c_cc.VMIN = InBufLen
  /\ Len(tty.ubuf) = InBufLen
  /\ tty.ubuf[1] = POSIX_VDISABLE
  /\ tty.ubuf[InBufLen] = cc_defaults.VINTR
  /\ tty.sent = << ReplyTo(msg, InBufLen) >>

(***************************************************************************)
(* LineSpec: one reader on a canonical line with an EOL character; the     *)
(* characters of lines, EOF and the erase character arrive one by one.     *)
(***************************************************************************)
\* '$' is the EOL character
CanonEol == [Canon EXCEPT !.c_cc.VEOL = 36]

SetCanonEol == IoctlMsg(11, TCSETS, CanonEol, 0, TRUE)

\* 'a', newline, EOL, EOF and the erase character
LineChars == {97, 10, 36, cc_defaults.VEOF, cc_defaults.VERASE}

LineInit ==
  /\ tty = main_events(do_ioctl(begin(Opened), SetCanonEol))
  /\ msg = SetCanonEol

LineNext ==
  \/ \E c \in LineChars : Input(<< c >>)
  \/ \E n \in {1, MaxCount} : DevRead(11, n, FALSE, TRUE)
  \/ DevStatus

LineSpec == LineInit /\ [][LineNext]_vars

Min(a, b) == IF a < b THEN a ELSE b

\* the first n elements of q, or all of q if it has fewer
Take(q, n) == SubSeq(q, 1, Min(n, Len(q)))

\* the first line of the queue: its cells up to the first line break
FirstLine(t) ==
  LET q == QueueCells(t)
      brk == CHOOSE i \in 1 .. Len(q) :
               q[i].eot /\ \A j \in 1 .. i - 1 : ~q[j].eot
  IN SubSeq(q, 1, brk)

\* the characters of a sequence of cells that reach a reader: all but EOF
RECURSIVE DataOf(_)
DataOf(q) ==
  IF q = << >> THEN << >>
  ELSE (IF Head(q).eof THEN << >> ELSE << Head(q).ch >>) \o DataOf(Tail(q))

\* a canonical line that is not hung up
Cooked(t) ==
  Has(t.tty_termios.c_lflag, "ICANON") /\ t.tty_termios.c_ospeed # B0

\* a blocking READ waits and nothing has been copied to it
Waiting(t) == t.tty_inleft > 0 /\ ~t.tty_inrevived /\ t.tty_incum = 0

\* the line that the character c completes, given the queue before it:
\* LF and EOL end the line and belong to it, EOF ends it and does not
LineWith(t, c) ==
  IF c = t.tty_termios.c_cc.VEOF THEN QueueChars(t)
  ELSE QueueChars(t) \o << c >>

\* C12: on a canonical line that is not hung up a READ of k bytes waits
\* as long as the queue holds no line break; the character that ends the
\* line (LF, EOL or EOF, stored because the queue has room) completes the
\* READ with the first min(k, n) characters of the line of n characters,
\* EOF not being one of them; and a READ that finds a line break queued is
\* answered at once with the first min(k, n) characters of the first line.
C12_CanonicalRead ==
  /\ [][(/\ IsInput(msg') /\ Len(msg'.CHARS) = 1
         /\ Cooked(tty) /\ Waiting(tty)
         /\ tty.tty_eotct = 0 /\ tty.dev_in = << >>)
        => LET c == msg'.CHARS[1]
               cc == tty.tty_termios.c_cc
               k == tty.tty_inleft
           IN IF c \in {10, cc.VEOL, cc.VEOF} /\ tty.tty_incount < InBufLen
              THEN /\ tty'.ubuf = Take(LineWith(tty, c), k)
                   /\ tty'.tty_incum = Len(tty'.ubuf)
                   /\ tty'.tty_inleft = 0
                   /\ tty'.tty_inrevived
              ELSE /\ tty'.ubuf = << >>
                   /\ tty'.sent = << >>
                   /\ Waiting(tty')
                   /\ tty'.tty_inleft = k]_vars
  /\ [][(/\ ValidRead(msg') /\ msg'.TTY_FLAGS = {}
         /\ Cooked(tty) /\ ReaderFree(tty) /\ tty.dev_in = << >>)
        => IF tty.tty_eotct > 0
           THEN /\ tty'.ubuf = Take(DataOf(FirstLine(tty)), msg'.COUNT)
                /\ tty'.sent = << ReplyTo(msg', Len(tty'.ubuf)) >>
                /\ ReaderFree(tty')
           ELSE /\ tty'.sent = << ReplyTo(msg', SUSPEND) >>
                /\ Waiting(tty')]_vars

\* a READ of one byte that waited has been completed by the newline of
\* the line "a\n" with the 'a' alone
C12_Witness ==
  /\ IsInput(msg)
  /\ msg.CHARS = << 10 >>
  /\ Cooked(tty)
  /\ tty.tty_inrevived
  /\ tty.ubuf = << 97 >>
  /\ tty.tty_incum = 1
  /\ QueueChars(tty) = << 10 >>


(***************************************************************************)
(* EditSpec: a canonical line whose echo flags are switched by TCSETS      *)
(* while characters, the erase character and the kill character arrive,    *)
(* a reader takes lines without waiting, and a writer's output gets        *)
(* between the echoes once, the device being idle.                         *)
(***************************************************************************)
EditModes ==
  {[Canon EXCEPT !.c_lflag = f] :
     f \in {{"ICANON", "ECHO", "ECHOE"}, {"ICANON", "ECHOE"},
            {"ICANON", "ECHO"}}}

\* 'a', newline, the erase character and the kill character
EditChars == {97, 10, cc_defaults.VERASE, cc_defaults.VKILL}

EditInit ==
  \E t \in EditModes :
    /\ tty = main_events(do_ioctl(begin(Opened),
                                  IoctlMsg(11, TCSETS, t, 0, TRUE)))
    /\ msg = IoctlMsg(11, TCSETS, t, 0, TRUE)

EditNext ==
  \/ \E c \in EditChars : Input(<< c >>)
  \/ \E t \in EditModes : DevIoctl(11, TCSETS, t, 0, TRUE)
  \/ DevRead(11, MaxCount, TRUE, TRUE)
  \/ tty.dev_room = DevRoom /\ DevWrite(12, 1, FALSE, TRUE)

EditSpec == EditInit /\ [][EditNext]_vars

\* the cells of a queue without their echoed lengths
Marks(q) == [i \in DOMAIN q |-> [q[i] EXCEPT !.len = 0]]

\* the position of the last line break of the queue q, 0 if it has none
LastBreak(q) ==
  IF \E i \in DOMAIN q : q[i].eot
  THEN CHOOSE i \in DOMAIN q : q[i].eot /\ \A j \in i + 1 .. Len(q) : ~q[j].eot
  ELSE 0

\* what the erase character c takes off the queue q: its last cell unless
\* that is a line break; and the kill character: the cells after the last
\* line break
AfterEdit(q, c, cc) ==
  IF c = cc.VERASE
  THEN (IF q # << >> /\ ~q[Len(q)].eot THEN SubSeq(q, 1, Len(q) - 1) ELSE q)
  ELSE SubSeq(q, 1, LastBreak(q))

\* n times backspace, space, backspace
RECURSIVE Rubout(_)
Rubout(n) == IF n = 0 THEN << >> ELSE << 8, 32, 8 >> \o Rubout(n - 1)

\* the rubouts of the n cells erased from the head at index head, the
\* cell queued last first, by the lengths the buffer buf holds for them
RECURSIVE Rubouts(_, _, _)
Rubouts(buf, head, n) ==
  IF n = 0 THEN << >>
  ELSE Rubout(buf[PrevIdx(head)].len) \o Rubouts(buf, PrevIdx(head), n - 1)

\* the sequence e ends with the sequence r
EndsWith(e, r) ==
  Len(r) <= Len(e) /\ SubSeq(e, Len(e) - Len(r) + 1, Len(e)) = r

\* an erase or kill character arrives on a canonical line
IsEdit(t, m) ==
  /\ IsInput(m) /\ Len(m.CHARS) = 1
  /\ m.CHARS[1] \in {t.tty_termios.c_cc.VERASE, t.tty_termios.c_cc.VKILL}
  /\ Has(t.tty_termios.c_lflag, "ICANON")
  /\ ~t.tty_escaped /\ t.dev_in = << >>

\* what the erase or kill character does to the queue
EditsQueue ==
  IsEdit(tty, msg')
  => /\ Marks(QueueCells(tty'))
          = Marks(AfterEdit(QueueCells(tty), msg'.CHARS[1],
                            tty.tty_termios.c_cc))
     /\ QueueCells(tty) = AfterEdit(QueueCells(tty), msg'.CHARS[1],
                                    tty.tty_termios.c_cc)
          => tty'.tty_inbuf = tty.tty_inbuf
     /\ tty'.tty_intail = tty.tty_intail
     /\ tty'.tty_eotct = tty.tty_eotct
     /\ tty'.tty_eotct
          = Cardinality({i \in 1 .. tty'.tty_incount : QueueCells(tty')[i].eot})

\* the echo sink has got the rubouts of the erased cells, and nothing 
\* else if the echoes had not been mixed with output
EditEchoes ==
  LET r == Rubouts(tty'.tty_inbuf, tty.tty_inhead,
                   tty.tty_incount - tty'.tty_incount)
  IN /\ EndsWith(tty'.echo, r)
     /\ ~tty.tty_reprint => tty'.echo = r
     /\ ~tty.tty_reprint => \A i \in 0 .. InBufLen - 1 :
                              tty'.tty_inbuf[i].len = tty.tty_inbuf[i].len

\* C13 as stated: in canonical mode the erase character removes the cell
\* queued last unless the queue is empty or that cell is a line break, the
\* kill character removes the cells after the last line break, neither
\* removes a line break, changes eot_count or is stored, and with ECHOE
\* the echo sink gets LEN times backspace-space-backspace per erased cell.
C13_EraseKillEchoe ==
  [][/\ EditsQueue
     /\ (IsEdit(tty, msg') /\ Has(tty.tty_termios.c_lflag, "ECHOE"))
        => EditEchoes]_vars

\* C13: the same, the echo sink getting the rubouts with ECHO and ECHOE
\* both set, and nothing with ECHO clear.
C13_EraseKill ==
  [][/\ EditsQueue
     /\ (IsEdit(tty, msg') /\ {"ECHO", "ECHOE"} \subseteq tty.tty_termios.c_lflag)
        => EditEchoes
     /\ (IsEdit(tty, msg') /\ ~Has(tty.tty_termios.c_lflag, "ECHO"))
        => tty'.echo = << >>]_vars

\* the kill character has removed the 'a' after a newline and its rubout
\* has been echoed
C13_Witness ==
  /\ IsInput(msg)
  /\ msg.CHARS = << cc_defaults.VKILL >>
  /\ {"ECHO", "ECHOE"} \subseteq tty.tty_termios.c_lflag
  /\ QueueChars(tty) = << 10 >>
  /\ tty.tty_eotct = 1
  /\ tty.tty_inbuf[tty.tty_inhead].ch = 97
  /\ tty.echo = << 8, 32, 8 >>


(***************************************************************************)
(* EscSpec: a line with ISIG and IEXTEN, in canonical or in raw mode, with *)
(* IXON and with or without IXANY.  LNEXT, STOP and newline arrive at any  *)
(* time, the other special characters after an LNEXT; a reader takes what  *)
(* is queued without waiting.                                              *)
(***************************************************************************)
EscModes ==
  {[termios_defaults EXCEPT !.c_lflag = l, !.c_iflag = i] :
     l \in {{"ISIG", "IEXTEN", "ICANON"}, {"ISIG", "IEXTEN"}},
     i \in {{"ICRNL", "IXON"}, {"ICRNL", "IXON", "IXANY"}}}

\* the characters that in_process interprets when they are not escaped
EscChars ==
  {cc_defaults.VINTR, cc_defaults.VQUIT, cc_defaults.VERASE,
   cc_defaults.VKILL, cc_defaults.VEOF, cc_defaults.VSTOP,
   cc_defaults.VSTART, 13, 10, cc_defaults.VREPRINT, cc_defaults.VLNEXT}

EscInit ==
  \E t \in EscModes :
    /\ tty = main_events(do_ioctl(begin(Opened),
                                  IoctlMsg(11, TCSETS, t, 0, TRUE)))
    /\ msg = IoctlMsg(11, TCSETS, t, 0, TRUE)

EscNext ==
  \/ \E c \in {cc_defaults.VLNEXT, cc_defaults.VSTOP, 10} : Input(<< c >>)
  \/ \E c \in EscChars : tty.tty_escaped /\ Input(<< c >>)
  \/ DevRead(11, MaxCount, TRUE, TRUE)

EscSpec == EscInit /\ [][EscNext]_vars

\* one character arrives while the escape state is set, with IEXTEN
IsEscaped(t, m) ==
  /\ IsInput(m) /\ Len(m.CHARS) = 1
  /\ t.tty_escaped /\ Has(t.tty_termios.c_lflag, "IEXTEN")
  /\ t.dev_in = << >>

\* the cell of the escaped character c: IN_ESC, and IN_EOT in raw mode only
EscCell(t, c) ==
  [Cell(c) EXCEPT !.esc = TRUE,
                  !.eot = ~Has(t.tty_termios.c_lflag, "ICANON")]

\* the escaped character raises no signal, erases nothing, gets no line
\* break in canonical mode, is stored with IN_ESC if the queue has room,
\* and the escape state is cleared
EscapedChar ==
  IsEscaped(tty, msg')
  => /\ tty'.sigs = << >>
     /\ ~tty'.tty_escaped
     /\ tty'.tty_intail = tty.tty_intail
     /\ IF tty.tty_incount < InBufLen
        THEN /\ QueueCells(tty')
                  = Append(QueueCells(tty), EscCell(tty, msg'.CHARS[1]))
             /\ Has(tty.tty_termios.c_lflag, "ICANON")
                  => tty'.tty_eotct = tty.tty_eotct
        ELSE QueueCells(tty') = QueueCells(tty)

\* the LNEXT character is not stored and sets the escape state
LnextChar ==
  (/\ IsInput(msg') /\ msg'.CHARS = << tty.tty_termios.c_cc.VLNEXT >>
   /\ ~tty.tty_escaped /\ Has(tty.tty_termios.c_lflag, "IEXTEN")
   /\ tty.dev_in = << >>)
  => /\ tty'.tty_escaped
     /\ QueueCells(tty') = QueueCells(tty)
     /\ tty'.tty_eotct = tty.tty_eotct

\* C14: with IEXTEN the character after an LNEXT, whatever its value,
\* raises no signal, erases nothing, does not change the flow control
\* state, gets no EOT mark in canonical mode and is stored with the ESC
\* attribute if the queue has room; the LNEXT is not stored and the escape
\* state is cleared after that one character.
C14_EscapedNeverInterpreted ==
  [][/\ EscapedChar
     /\ LnextChar
     /\ IsEscaped(tty, msg') => tty'.tty_inhibited = tty.tty_inhibited]_vars


(***************************************************************************)
(* FlowSpec: a canonical line with ISIG whose IXON flag is switched by     *)
(* TCSETS, IXANY being clear; STOP, START, the interrupt character and     *)
(* ordinary characters arrive, TCFLOW stops and restarts the output, and a *)
(* reader takes lines without waiting.                                     *)
(***************************************************************************)
FlowModes == {[Canon EXCEPT !.c_iflag = i] : i \in {{"IXON"}, {}}}

\* 'a', newline, STOP, START and the interrupt character
FlowChars ==
  {97, 10, cc_defaults.VSTOP, cc_defaults.VSTART, cc_defaults.VINTR}

FlowInit ==
  /\ tty = main_events(do_ioctl(begin(Opened),
             IoctlMsg(11, TCSETS, [Canon EXCEPT !.c_iflag = {"IXON"}], 0,
                      TRUE)))
  /\ msg = IoctlMsg(11, TCSETS, [Canon EXCEPT !.c_iflag = {"IXON"}], 0, TRUE)

FlowNext ==
  \/ \E c \in FlowChars : Input(<< c >>)
  \/ \E t \in FlowModes : DevIoctl(11, TCSETS, t, 0, TRUE)
  \/ \E p \in {TCOOFF, TCOON} : DevIoctl(11, TCFLOW, Canon, p, TRUE)
  \/ DevRead(11, MaxCount, TRUE, TRUE)

FlowSpec == FlowInit /\ [][FlowNext]_vars

\* start/stop control is on and only START restarts the output
Ixon(t) ==
  Has(t.tty_termios.c_iflag, "IXON") /\ ~Has(t.tty_termios.c_iflag, "IXANY")

\* the one character c arrives
Arrives(m, c) == IsInput(m) /\ m.CHARS = << c >>

\* what may end the stopped state: START, TCFLOW(TCOON), a signal
\* character, a setattr with IXON off
Restarts(t, m) ==
  \/ Arrives(m, t.tty_termios.c_cc.VSTART)
  \/ Arrives(m, t.tty_termios.c_cc.VINTR)
  \/ Arrives(m, t.tty_termios.c_cc.VQUIT)
  \/ m.m_type = "DEV_IOCTL" /\ m.REQUEST = TCFLOW /\ m.PARAM = TCOON
  \/ /\ m.m_type = "DEV_IOCTL"
     /\ m.REQUEST \in {TCSETS, TCSETSW, TCSETSF}
     /\ ~Has(m.TERMIOS.c_iflag, "IXON")

\* in_process, called with events_flag clear, sets it for STOP, and for
\* START on a stopped line
SetsEvents ==
  Ixon(tty)
  => LET quiet == [tty EXCEPT !.tty_events = FALSE]
         cc == tty.tty_termios.c_cc
     IN /\ in_process(quiet, << cc.VSTOP >>).s.tty_events
        /\ tty.tty_inhibited = STOPPED
             => in_process(quiet, << cc.VSTART >>).s.tty_events

\* STOP stops the line and is not queued; a stopped line stays stopped
\* until one of the restarting events
StopHolds ==
  /\ (Ixon(tty) /\ Arrives(msg', tty.tty_termios.c_cc.VSTOP))
     => /\ tty'.tty_inhibited = STOPPED
        /\ QueueCells(tty') = QueueCells(tty)
  /\ (Ixon(tty) /\ tty.tty_inhibited = STOPPED /\ ~Restarts(tty, msg'))
     => tty'.tty_inhibited = STOPPED

\* C15 as stated: with IXON set and IXANY clear the line is stopped after
\* a STOP character and stays stopped until a START character, a
\* TCFLOW(TCOON), a signal character or a setattr with IXON off; STOP and
\* START are never placed in the input queue and remove no queued cell.
C15_StartNeverQueued ==
  [][/\ StopHolds
     /\ (Ixon(tty) /\ Arrives(msg', tty.tty_termios.c_cc.VSTART))
        => /\ tty'.tty_inhibited = RUNNING
           /\ QueueCells(tty') = QueueCells(tty)]_vars

\* C15: the same, START being taken as flow control on a stopped line
\* only: on a running line it is an ordinary character, queued behind the
\* others if there is room; STOP, and START on a stopped line, set
\* events_flag.
C15_StopStart ==
  /\ [][/\ StopHolds
         /\ (Ixon(tty) /\ Arrives(msg', tty.tty_termios.c_cc.VSTART))
            => /\ tty'.tty_inhibited = RUNNING
               /\ tty.tty_inhibited = STOPPED
                    => QueueCells(tty') = QueueCells(tty)
               /\ (tty.tty_inhibited = RUNNING /\ tty.tty_incount < InBufLen)
                    => QueueCells(tty')
                         = Append(QueueCells(tty),
                                  Cell(tty.tty_termios.c_cc.VSTART))
               /\ (tty.tty_inhibited = RUNNING /\ tty.tty_incount = InBufLen)
                    => QueueCells(tty') = QueueCells(tty)]_vars
  /\ []SetsEvents

\* START has restarted a stopped line that has an 'a' queued, and has not
\* been queued itself
C15_Witness ==
  /\ Arrives(msg, cc_defaults.VSTART)
  /\ Ixon(tty)
  /\ tty.tty_inhibited = RUNNING
  /\ QueueChars(tty) = << 97 >>


(***************************************************************************)
(* FullSpec: a line in canonical mode or in raw mode with MIN = 1 whose    *)
(* queue fills up: characters arrive one or several at a time, the erase   *)
(* and kill characters among them, and a reader takes what is queued       *)
(* without waiting.                                                        *)
(***************************************************************************)
FullModes == {Canon, RawTermios(1, 0)}

\* 'a', newline, the erase character and the kill character
FullChars == {97, 10, cc_defaults.VERASE, cc_defaults.VKILL}

FullInit ==
  \E t \in FullModes :
    /\ tty = main_events(do_ioctl(begin(Opened),
                                  IoctlMsg(11, TCSETS, t, 0, TRUE)))
    /\ msg = IoctlMsg(11, TCSETS, t, 0, TRUE)

\* the characters arrive one at a time, or 'a's and erase characters up to
\* InBufLen at a time
FullNext ==
  \/ \E c \in FullChars : Input(<< c >>)
  \/ \E buf \in SeqsUpTo({97, cc_defaults.VERASE}, InBufLen) : Input(buf)
  \/ DevRead(11, MaxCount, TRUE, TRUE)

FullSpec == FullInit /\ [][FullNext]_vars

\* the queue q of a canonical line after the characters of buf: the erase
\* and kill characters act, a character that finds the queue full is
\* dropped, any other is queued, newline as a line break
RECURSIVE CanonFeed(_, _, _)
CanonFeed(q, buf, cc) ==
  IF buf = << >> THEN q
  ELSE CanonFeed(
         IF Head(buf) \in {cc.VERASE, cc.VKILL}
         THEN AfterEdit(q, Head(buf), cc)
         ELSE IF Len(q) = InBufLen THEN q
         ELSE Append(q, [Cell(Head(buf)) EXCEPT !.eot = (Head(buf) = 10)]),
         Tail(buf), cc)

\* characters arrive on a line whose reader slot is free
Fed(t, m) == IsInput(m) /\ ReaderFree(t) /\ t.dev_in = << >>

\* C16: in canonical mode a character that finds the queue full is
\* consumed and dropped, count, eot_count, head and tail staying as they
\* are, while the erase and kill characters still act and free space; in
\* raw mode in_process stops at the character that finds the queue full:
\* the characters before it are queued and it and those after it stay
\* with the device.
C16_QueueFull ==
  [][/\ (Fed(tty, msg') /\ Has(tty.tty_termios.c_lflag, "ICANON"))
        => /\ QueueCells(tty')
                = CanonFeed(QueueCells(tty), msg'.CHARS, tty.tty_termios.c_cc)
           /\ tty'.dev_in = << >>
           /\ tty'.tty_intail = tty.tty_intail
           /\ tty'.tty_eotct
                = Cardinality({i \in 1 .. tty'.tty_incount :
                                 QueueCells(tty')[i].eot})
           /\ (/\ tty.tty_incount = InBufLen
               /\ \A i \in DOMAIN msg'.CHARS : msg'.CHARS[i] \in {97, 10})
              => /\ tty'.tty_incount = tty.tty_incount
                 /\ tty'.tty_eotct = tty.tty_eotct
                 /\ tty'.tty_inhead = tty.tty_inhead
                 /\ tty'.tty_inbuf = tty.tty_inbuf
     /\ (Fed(tty, msg') /\ ~Has(tty.tty_termios.c_lflag, "ICANON"))
        => LET ct == Min(InBufLen - tty.tty_incount, Len(msg'.CHARS))
           IN /\ QueueChars(tty')
                   = QueueChars(tty) \o SubSeq(msg'.CHARS, 1, ct)
              /\ tty'.dev_in = SubSeq(msg'.CHARS, ct + 1, Len(msg'.CHARS))
              /\ tty'.tty_eotct = tty'.tty_incount
              /\ tty'.tty_intail = tty.tty_intail]_vars

\* a raw line has taken the first of two characters, which filled its
\* queue, and left the second with the device
C16_Witness ==
  /\ IsInput(msg)
  /\ Len(msg.CHARS) = 2
  /\ ~Has(tty.tty_termios.c_lflag, "ICANON")
  /\ tty.tty_incount = InBufLen
  /\ tty.dev_in = << msg.CHARS[2] >>
  /\ QueueChars(tty)[InBufLen] = msg.CHARS[1]


(***************************************************************************)
(* out_process.  The circular buffer is a function on 0 .. OutBufLen - 1,  *)
(* bpos an index into it; the in-out parameters *icount and *ocount and    *)
(* the buffer are returned with the line.                                  *)
(***************************************************************************)
OutBufLen == 3

\* if (++bpos == bend) bpos = bstart
NextOut(i) == IF i + 1 = OutBufLen THEN 0 ELSE i + 1

\* the do-while of the tab expansion: tablen spaces from bpos onwards
RECURSIVE out_spaces(_, _)
out_spaces(x, tablen) ==
  IF tablen = 0 THEN x
  ELSE out_spaces([x EXCEPT !.buf[x.bpos] = 32, !.bpos = NextOut(@)],
                  tablen - 1)

\* out_process_loop with "if (oct >= 1)" for "if (oct >= 2)"
RECURSIVE out_process_loop_one_slot(_, _)
out_process_loop_one_slot(oflag, x) ==
  LET tablen == TAB_SIZE - (x.pos % (TAB_MASK + 1))
      next(pos) ==
        out_process_loop_one_slot(oflag, [x EXCEPT !.bpos = NextOut(@),
                                                   !.ict = @ - 1,
                                                   !.oct = @ - 1,
                                                   !.pos = pos])
  IN IF x.ict <= 0 THEN x
     ELSE IF x.buf[x.bpos] = 7 THEN next(x.pos)
     ELSE IF x.buf[x.bpos] = 8 THEN next(x.pos - 1)
     ELSE IF x.buf[x.bpos] = 13 THEN next(0)
     ELSE IF x.buf[x.bpos] = 10
     THEN IF {"OPOST", "ONLCR"} \subseteq oflag
          THEN IF x.oct >= 1
               THEN [x EXCEPT !.buf[x.bpos] = 13,
                              !.buf[NextOut(x.bpos)] = 10,
                              !.bpos = NextOut(@),
                              !.pos = 0, !.ict = @ - 1, !.oct = @ - 2]
               ELSE x
          ELSE next(x.pos)
     ELSE IF x.buf[x.bpos] = 9
     THEN IF {"OPOST", "XTABS"} \subseteq oflag
          THEN IF x.oct >= tablen
               THEN out_spaces([x EXCEPT !.pos = @ + tablen, !.ict = @ - 1,
                                         !.oct = @ - tablen], tablen)
               ELSE x
          ELSE next(x.pos + tablen)
     ELSE next(x.pos + 1)

\* the while loop of out_process up to out_done, on
\*   x = [buf, bpos, ict, oct, pos]
RECURSIVE out_process_loop(_, _)
out_process_loop(oflag, x) ==
  LET tablen == TAB_SIZE - (x.pos % (TAB_MASK + 1))
      \* the end of the loop body: the character is output as it is
      next(pos) ==
        out_process_loop(oflag, [x EXCEPT !.bpos = NextOut(@),
                                          !.ict = @ - 1,
                                          !.oct = @ - 1,
                                          !.pos = pos])
  IN IF x.ict <= 0 THEN x
     ELSE IF x.buf[x.bpos] = 7 THEN next(x.pos)
     ELSE IF x.buf[x.bpos] = 8 THEN next(x.pos - 1)
     ELSE IF x.buf[x.bpos] = 13 THEN next(0)
     ELSE IF x.buf[x.bpos] = 10
     THEN IF {"OPOST", "ONLCR"} \subseteq oflag
          THEN IF x.oct >= 2
               THEN [x EXCEPT !.buf[x.bpos] = 13,
                              !.buf[NextOut(x.bpos)] = 10,
                              !.bpos = NextOut(@),
                              !.pos = 0, !.ict = @ - 1, !.oct = @ - 2]
               ELSE x
          ELSE next(x.pos)
     ELSE IF x.buf[x.bpos] = 9
     THEN IF {"OPOST", "XTABS"} \subseteq oflag
          THEN IF x.oct >= tablen
               THEN out_spaces([x EXCEPT !.pos = @ + tablen, !.ict = @ - 1,
                                         !.oct = @ - tablen], tablen)
               ELSE x
          ELSE next(x.pos + tablen)
     ELSE next(x.pos + 1)

\* out_process storing the column without "& TAB_MASK"
out_process_keeps_pos(s, buf, bpos, icount, ocount) ==
  LET done(x) ==
        [s |-> [s EXCEPT !.tty_position = x.pos],
         buf |-> x.buf,
         icount |-> icount - x.ict,
         ocount |-> ocount - x.oct]
  IN done(out_process_loop(s.tty_termios.c_oflag,
                           [buf |-> buf, bpos |-> bpos, ict |-> icount,
                            oct |-> ocount, pos |-> s.tty_position]))

\* returns [s |-> the line, buf |-> the buffer, icount |-> *icount,
\*          ocount |-> *ocount]
out_process(s, buf, bpos, icount, ocount) ==
  LET done(x) ==
        [s |-> [s EXCEPT !.tty_position = x.pos % (TAB_MASK + 1)],
         buf |-> x.buf,
         icount |-> icount - x.ict,
         ocount |-> ocount - x.oct]
  IN done(out_process_loop(s.tty_termios.c_oflag,
                           [buf |-> buf, bpos |-> bpos, ict |-> icount,
                            oct |-> ocount, pos |-> s.tty_position]))

(***************************************************************************)
(* OutSpec: a device calls out_process once, on any buffer of 'A's,        *)
(* newlines and tabs, from any place in it, with *icount <= *ocount, on a  *)
(* line with or without ONLCR and XTABS.  msg holds the arguments of the   *)
(* call, and after it the buffer and the counts as out_process left them.  *)
(***************************************************************************)
\* 'A', newline and tab
OutChars == {65, 10, 9}

OutFlags == {{"OPOST", "ONLCR"}, {"OPOST", "ONLCR", "XTABS"}, {"OPOST"}}

\* the columns the line may be at: the first, and one that leaves a tab
\* of three columns
OutColumns == {0, 5}

OutCalls ==
  {[m_type |-> "out_process", buf |-> b, bpos |-> p, icount |-> i,
    ocount |-> o, returned |-> FALSE] :
     b \in [0 .. OutBufLen - 1 -> OutChars], p \in 0 .. OutBufLen - 1,
     i \in 1 .. OutBufLen, o \in 1 .. OutBufLen + 1}

OutInit ==
  /\ \E f \in OutFlags, p \in OutColumns :
       tty = [Opened EXCEPT !.tty_termios.c_oflag = f, !.tty_position = p]
  /\ msg \in {c \in OutCalls : c.icount <= c.ocount}

OutProcess ==
  /\ ~msg.returned
  /\ LET r == out_process(tty, msg.buf, msg.bpos, msg.icount, msg.ocount)
     IN /\ tty' = r.s
        /\ msg' = [msg EXCEPT !.buf = r.buf, !.icount = r.icount,
                              !.ocount = r.ocount, !.returned = TRUE]

OutNext == OutProcess

OutSpec == OutInit /\ [][OutNext]_vars

\* the place of the k-th character after bpos
OutAt(m, k) == (m.bpos + k) % OutBufLen

\* the character at offset k stops out_process: a newline under
\* OPOST|ONLCR, a tab under OPOST|XTABS
Stops(t, m, k) ==
  \/ m.buf[OutAt(m, k)] = 10
       /\ {"OPOST", "ONLCR"} \subseteq t.tty_termios.c_oflag
  \/ m.buf[OutAt(m, k)] = 9
       /\ {"OPOST", "XTABS"} \subseteq t.tty_termios.c_oflag

\* the column after the first k characters, none of which stops
RECURSIVE ColumnAfter(_, _, _)
ColumnAfter(t, m, k) ==
  IF k = 0 THEN t.tty_position
  ELSE LET pos == ColumnAfter(t, m, k - 1)
           c == m.buf[OutAt(m, k - 1)]
       IN IF c = 9 THEN 0
          ELSE IF c = 13 THEN 0
          ELSE IF c = 8 THEN (pos - 1) % TAB_SIZE
          ELSE IF c \in {7, 10} THEN pos
          ELSE (pos + 1) % TAB_SIZE

\* out_process reaches a newline under OPOST|ONLCR at offset k
ReachesLf(t, m, k) ==
  /\ k < m.icount
  /\ m.buf[OutAt(m, k)] = 10
  /\ {"OPOST", "ONLCR"} \subseteq t.tty_termios.c_oflag
  /\ \A j \in 0 .. k - 1 : ~Stops(t, m, j)

\* C17: when out_process reaches an LF with OPOST|ONLCR set and at least
\* 2 output slots remain, it rewrites the slot as CR and the next slot,
\* with wrap-around, as LF, sets the column to 0, counts 1 input and 2
\* output consumed and stops; with fewer than 2 slots it stops before the
\* LF, neither consuming it nor changing the buffer; on return *icount is
\* the number of input characters consumed and *ocount the number of
\* output slots used.
C17_OutputLf ==
  [][\A k \in 0 .. OutBufLen - 1 :
       /\ ReachesLf(tty, msg, k)
          => IF msg.ocount - k >= 2
             THEN /\ msg'.buf = [msg.buf EXCEPT ![OutAt(msg, k)] = 13,
                                                ![OutAt(msg, k + 1)] = 10]
                  /\ tty'.tty_position = 0
                  /\ msg'.icount = k + 1
                  /\ msg'.ocount = k + 2
             ELSE /\ msg'.buf = msg.buf
                  /\ tty'.tty_position = ColumnAfter(tty, msg, k)
                  /\ msg'.icount = k
                  /\ msg'.ocount = k
       /\ (k + 1 = msg.icount /\ \A j \in 0 .. k : ~Stops(tty, msg, j))
          => /\ msg'.buf = msg.buf
             /\ tty'.tty_position = ColumnAfter(tty, msg, k + 1)
             /\ msg'.icount = msg.icount
             /\ msg'.ocount = msg.icount]_vars

\* out_process has rewritten the LF in the last slot of the buffer as CR
\* and put the LF in the first slot, after one character output as it was
C17_Witness ==
  /\ msg.m_type = "out_process"
  /\ msg.returned
  /\ msg.buf[OutBufLen - 1] = 13
  /\ msg.buf[0] = 10
  /\ msg.icount = 2
  /\ msg.ocount = 3
  /\ tty.tty_position = 0


(***************************************************************************)
(* PollSpec: one process reads a line in canonical mode, or in raw mode    *)
(* with MIN = 1, with and without O_NONBLOCK, while characters and whole   *)
(* lines arrive.                                                           *)
(***************************************************************************)
PollModes == {Canon, RawTermios(1, 0)}

\* an 'a', a newline, and the line "a\n" at once
PollInputs == {<< 97 >>, << 10 >>, << 97, 10 >>}

PollInit ==
  \E t \in PollModes :
    /\ tty = main_events(do_ioctl(begin(Opened),
                                  IoctlMsg(11, TCSETS, t, 0, TRUE)))
    /\ msg = IoctlMsg(11, TCSETS, t, 0, TRUE)

PollNext ==
  \/ \E n \in {1, MaxCount}, nb \in BOOLEAN : DevRead(11, n, nb, TRUE)
  \/ \E buf \in PollInputs : Input(buf)
  \/ DevStatus

PollSpec == PollInit /\ [][PollNext]_vars

\* the line is not hung up and holds nothing a READ could be given
NoInput(t) ==
  /\ t.tty_termios.c_ospeed # B0
  /\ t.tty_eotct < t.tty_min
  /\ t.dev_in = << >>

\* a DEV_READ with valid parameters and O_NONBLOCK
Nonblocking(m) == ValidRead(m) /\ Has(m.TTY_FLAGS, "O_NONBLOCK")

\* C18: a READ with O_NONBLOCK on a line that is not hung up, has no
\* deliverable input and no other READ in its reader slot, is answered
\* EAGAIN and leaves the reader slot free (leftover = cumulative = 0, not
\* marked revived); the blocking READ that follows it is
\* accepted, answered SUSPEND and not EIO; and the line injected while it
\* waits completes it with the characters of that line, which DEV_STATUS
\* reports to the reader.
C18_NonblockingRead ==
  /\ [][(Nonblocking(msg') /\ ReaderFree(tty) /\ NoInput(tty))
        => /\ tty'.sent = << ReplyTo(msg', EAGAIN) >>
           /\ tty'.tty_inleft = 0
           /\ tty'.tty_incum = 0
           /\ ReaderFree(tty')
           /\ tty'.ubuf = << >>
           /\ QueueCells(tty') = QueueCells(tty)]_vars
  /\ [][(/\ Nonblocking(msg)
         /\ tty.sent = << ReplyTo(msg, EAGAIN) >>
         /\ ReaderFree(tty) /\ NoInput(tty)
         /\ ValidRead(msg') /\ msg'.TTY_FLAGS = {})
        => /\ tty'.sent = << ReplyTo(msg', SUSPEND) >>
           /\ Waiting(tty')
           /\ tty'.tty_inleft = msg'.COUNT
           /\ tty'.tty_inproc = msg'.PROC_NR]_vars
  /\ [][(/\ Waiting(tty) /\ NoInput(tty)
         /\ Has(tty.tty_termios.c_lflag, "ICANON")
         /\ IsInput(msg') /\ msg'.CHARS[Len(msg'.CHARS)] = 10
         /\ tty.tty_incount + Len(msg'.CHARS) <= InBufLen)
        => /\ tty'.ubuf = Take(QueueChars(tty) \o msg'.CHARS, tty.tty_inleft)
           /\ tty'.tty_incum = Len(tty'.ubuf)
           /\ tty'.tty_inrevived
           /\ tty'.tty_inleft = 0]_vars
  /\ [][(tty.tty_inrevived /\ msg' = StatusMsg)
        => /\ tty'.sent = << [m_type |-> "DEV_REVIVE", to |-> msg'.m_source,
                              REP_PROC_NR |-> tty.tty_inproc,
                              REP_STATUS |-> tty.tty_incum] >>
           /\ ReaderFree(tty')]_vars

\* a READ with O_NONBLOCK has been answered EAGAIN on a canonical line
\* that holds an 'a' and no line break, and the reader slot is free
C18_Witness ==
  /\ Nonblocking(msg)
  /\ tty.sent = << ReplyTo(msg, EAGAIN) >>
  /\ Has(tty.tty_termios.c_lflag, "ICANON")
  /\ QueueChars(tty) = << 97 >>
  /\ tty.tty_inleft = 0
  /\ tty.tty_incum = 0
  /\ ~tty.tty_inrevived


(***************************************************************************)
(* AttrSpec: a process sets the attributes of the line with TCSETS, to     *)
(* canonical and raw modes, with and without IXON, with MIN and TIME, and  *)
(* with the output speed B0, and reads them back with TCGETS, from valid   *)
(* and invalid addresses, while 'a's arrive and are read.                  *)
(***************************************************************************)
AttrModes ==
  {Canon, [Canon EXCEPT !.c_iflag = {"IXON"}], RawSig, RawTermios(0, 1),
   HungUp(Canon)}

AttrInit ==
  /\ tty = Opened
  /\ msg = OpenMsg("TTY", 11, {})

AttrNext ==
  \/ \E t \in AttrModes, ok \in BOOLEAN : DevIoctl(11, TCSETS, t, 0, ok)
  \/ \E ok \in BOOLEAN : DevIoctl(11, TCGETS, termios_defaults, 0, ok)
  \/ Input(<< 97 >>)
  \/ DevRead(11, MaxCount, TRUE, TRUE)

AttrSpec == AttrInit /\ [][AttrNext]_vars

\* m is a DEV_IOCTL with request req
IsIoctl(m, req) == m.m_type = "DEV_IOCTL" /\ m.REQUEST = req

\* C19: a TCSETS with the termios image T that is answered OK stores T,
\* and the TCGETS that follows it, with no request in between, copies
\* exactly T to its caller and leaves T stored.
C19_SetThenGet ==
  /\ [][(IsIoctl(msg', TCSETS) /\ tty'.sent = << ReplyTo(msg', OK) >>)
        => tty'.tty_termios = msg'.TERMIOS]_vars
  /\ [][(/\ IsIoctl(msg, TCSETS) /\ tty.sent = << ReplyTo(msg, OK) >>
         /\ IsIoctl(msg', TCGETS) /\ msg'.ADDRESS)
        => /\ tty'.iobuf = << msg.TERMIOS >>
           /\ tty'.sent = << ReplyTo(msg', OK) >>
           /\ tty'.tty_termios = msg.TERMIOS]_vars

\* a TCGETS has returned the raw termios with MIN = 0 and TIME = 1 that
\* the TCSETS before it had set
C19_Witness ==
  /\ IsIoctl(msg, TCGETS)
  /\ tty.iobuf = << RawTermios(0, 1) >>
  /\ tty.tty_min = 1
  /\ tty.sent = << ReplyTo(msg, OK) >>


(***************************************************************************)
(* SetSpec: setattr is applied twice to a line.  The line it starts from   *)
(* has any termios of SetModes just stored in it, any queue of 'a's and    *)
(* newlines typed in canonical or in raw mode, the timer on or off, the    *)
(* output running or stopped, events_flag set or clear.  msg counts the    *)
(* applications.                                                           *)
(***************************************************************************)
SetModes ==
  {Canon, [Canon EXCEPT !.c_iflag = {"IXON"}], RawSig, RawTermios(0, 1),
   [RawTermios(MaxCount, 0) EXCEPT !.c_iflag = {"IXON"}],
   HungUp([Canon EXCEPT !.c_iflag = {"IXON"}]),
   HungUp([RawSig EXCEPT !.c_lflag = {"NOFLSH"}, !.c_iflag = {"IXON"}])}

\* the cells a queue may hold: an 'a', and a newline or an 'a' that is a
\* line break
SetCells ==
  {Cell(97), [Cell(10) EXCEPT !.eot = TRUE], [Cell(97) EXCEPT !.eot = TRUE]}

\* the line with the queue q stored from the index tail onwards
WithQueue(s, q, tail) ==
  [s EXCEPT
     !.tty_inbuf = [i \in 0 .. InBufLen - 1 |->
                      IF (i - tail) % InBufLen < Len(q)
                      THEN q[((i - tail) % InBufLen) + 1] ELSE NoCell],
     !.tty_intail = tail,
     !.tty_inhead = (tail + Len(q)) % InBufLen,
     !.tty_incount = Len(q),
     !.tty_eotct = Cardinality({i \in 1 .. Len(q) : q[i].eot})]

SetInit ==
  /\ \E t \in SetModes, q \in {<< >>} \cup SeqsUpTo(SetCells, InBufLen),
        tail \in 0 .. InBufLen - 1, tmr, stopped, events \in BOOLEAN,
        min \in 0 .. 1 :
       tty = [WithQueue(Opened, q, tail) EXCEPT
                !.tty_termios = t, !.tty_tmr = tmr, !.tty_min = min,
                !.tty_inhibited = stopped, !.tty_events = events]
  /\ msg = [m_type |-> "setattr", applied |-> 0]

SetAttr ==
  /\ msg.applied < 2
  /\ tty' = setattr(tty)
  /\ msg' = [msg EXCEPT !.applied = @ + 1]

SetNext == SetAttr

SetSpec == SetInit /\ [][SetNext]_vars

\* C20: applying setattr again with the termios unchanged leaves the
\* queue cells and their EOT marks, eot_count, min, the timer, the
\* inhibited state and events_flag as the first application left them.
C20_SetattrIdempotent ==
  [][(msg.m_type = "setattr" /\ msg.applied = 1 /\ msg'.applied = 2)
     => /\ QueueCells(tty') = QueueCells(tty)
        /\ tty'.tty_incount = tty.tty_incount
        /\ tty'.tty_intail = tty.tty_intail
        /\ tty'.tty_inhead = tty.tty_inhead
        /\ tty'.tty_eotct = tty.tty_eotct
        /\ tty'.tty_min = tty.tty_min
        /\ tty'.tty_tmr = tty.tty_tmr
        /\ tty'.tty_inhibited = tty.tty_inhibited
        /\ tty'.tty_events = tty.tty_events
        /\ tty'.tty_termios = tty.tty_termios]_vars

\* setattr has been applied twice to a raw line with a full queue: every
\* cell is a line break and eot_count is the number of cells
C20_Witness ==
  /\ msg.m_type = "setattr"
  /\ msg.applied = 2
  /\ tty.tty_termios = RawTermios(0, 1)
  /\ tty.tty_incount = InBufLen
  /\ tty.tty_eotct = InBufLen
  /\ tty.tty_min = 1
  /\ QueueCells(tty)[1] = [Cell(97) EXCEPT !.eot = TRUE]


(***************************************************************************)
(* FlushSpec: TCFLSH with every argument on a line in canonical or raw     *)
(* mode that holds typed input, part of which a reader may have taken.     *)
(***************************************************************************)
\* the arguments of TCFLSH: the three of termios.h, one below, one above
FlushArgs == {0, TCIFLUSH, TCOFLUSH, TCIOFLUSH, 4}

FlushNext ==
  \/ \E buf \in SeqsUpTo({97, 10}, InBufLen) : Input(buf)
  \/ \E t \in {Canon, RawTermios(1, 0)} : DevIoctl(11, TCSETS, t, 0, TRUE)
  \/ \E p \in Procs : DevIoctl(p, TCFLSH, termios_defaults, TCIOFLUSH, TRUE)
  \/ \E arg \in FlushArgs, ok \in BOOLEAN :
       DevIoctl(11, TCFLSH, termios_defaults, arg, ok)
  \/ DevRead(11, MaxCount, TRUE, TRUE)

FlushSpec == Init /\ [][FlushNext]_vars

\* a TCFLSH whose argument could be copied in and is arg
IsFlush(m, arg) == IsIoctl(m, TCFLSH) /\ m.ADDRESS /\ m.PARAM = arg

\* the line apart from what the last iteration sent and copied
Line(t) == begin(t)

\* C21: after TCFLSH with TCIOFLUSH the input queue has count = eot_count
\* = 0 and tail = head, whatever it held; a second TCIOFLUSH leaves the
\* line as the first left it; a TCFLSH with an argument other than
\* TCIFLUSH, TCOFLUSH and TCIOFLUSH is answered EINVAL and leaves the line
\* with its queue unchanged.
C21_Flush ==
  /\ [][IsFlush(msg', TCIOFLUSH)
        => /\ tty'.tty_incount = 0
           /\ tty'.tty_eotct = 0
           /\ tty'.tty_intail = tty'.tty_inhead
           /\ tty'.sent = << ReplyTo(msg', OK) >>]_vars
  /\ [][(IsFlush(msg, TCIOFLUSH) /\ IsFlush(msg', TCIOFLUSH))
        => Line(tty') = Line(tty)]_vars
  /\ [][(IsIoctl(msg', TCFLSH) /\ msg'.ADDRESS
           /\ msg'.PARAM \notin {TCIFLUSH, TCOFLUSH, TCIOFLUSH})
        => /\ tty'.sent = << ReplyTo(msg', EINVAL) >>
           /\ Line(tty') = Line(tty)]_vars

\* TCIOFLUSH has emptied a canonical queue that held an unfinished line:
\* the 'a' is still in the cell behind head
C21_Witness ==
  /\ IsFlush(msg, TCIOFLUSH)
  /\ tty.sent = << ReplyTo(msg, OK) >>
  /\ tty.tty_termios = Canon
  /\ tty.tty_incount = 0
  /\ tty.tty_inhead = 1
  /\ tty.tty_intail = 1
  /\ tty.tty_inbuf[0] = Cell(97)


(***************************************************************************)
(* The count a READ reports.  tty_in_vir, which do_read sets to the        *)
(* address of the reader's buffer and in_transfer advances by what it      *)
(* copies, is kept as the offset into that buffer: the number of bytes     *)
(* copied for the READ in the slot.                                        *)
(***************************************************************************)
\* the counts that the replies of type `type' in the messages sent report
CountsOf(t, type) == {r \in StatusesOf(t, type) : r >= 0}

\* C22: the count a READ reports, by its direct reply or by the REVIVE
\* that DEV_STATUS hands over, does not exceed the count requested and is
\* the number of bytes copied into the reader's buffer for that READ.
C22_ReadCount ==
  /\ [][ValidRead(msg')
        => \A r \in CountsOf(tty', "TASK_REPLY") :
             r <= msg'.COUNT /\ r = Len(tty'.ubuf)]_vars
  /\ [][(msg'.m_type = "DEV_STATUS" /\ tty.tty_inrevived)
        => \A r \in CountsOf(tty', "DEV_REVIVE") :
             r <= MaxCount /\ r = tty.tty_in_vir]_vars


(***************************************************************************)
(* StatusSpec: DEV_STATUS polls over tty_table.  In this specification tty *)
(* is the table, a sequence of NrLines lines.  Each line starts with any   *)
(* combination of a select subscription, a complete line of input or       *)
(* none, a reader that is absent or revived with or without bytes left to  *)
(* read, a writer that is absent or revived, and a device that can or      *)
(* cannot take output.  FS polls until it is told DEV_NO_STATUS.           *)
(***************************************************************************)
NrLines == 2

\* the line has an event for the sender of m: one of the three tests of
\* the for loop of do_status
has_status(s, m) ==
  \/ select_try(s, s.tty_select_ops) # {} /\ s.tty_select_proc = m.m_source
  \/ s.tty_inrevived /\ s.tty_incaller = m.m_source
  \/ s.tty_outrevived /\ s.tty_outcaller = m.m_source

\* the for loop of do_status with its break, and the send that follows it;
\* the reply is recorded with the line it reports, DEV_NO_STATUS with the
\* first line
do_status_table(tab, m) ==
  LET found == {i \in DOMAIN tab : has_status(tab[i], m)}
      first == CHOOSE i \in found : \A j \in found : i <= j
  IN IF found = {} THEN [tab EXCEPT ![1] = do_status(@, m)]
     ELSE [tab EXCEPT ![first] = do_status(@, m)]

StatusReaders ==
  {[left |-> 0, cum |-> 0, revived |-> FALSE],
   [left |-> 0, cum |-> 1, revived |-> TRUE],
   [left |-> 1, cum |-> 1, revived |-> TRUE]}

StatusWriters ==
  {[left |-> 0, cum |-> 0, revived |-> FALSE],
   [left |-> 0, cum |-> MaxCount, revived |-> TRUE]}

StatusLine(ops, q, rd, wr, room) ==
  [WithQueue([Opened EXCEPT !.tty_termios = Canon], q, 0) EXCEPT
     !.tty_select_ops = ops,
     !.tty_select_proc = IF ops = {} THEN 0 ELSE FS_PROC_NR,
     !.tty_inleft = rd.left, !.tty_incum = rd.cum,
     !.tty_in_vir = rd.cum, !.tty_inrevived = rd.revived,
     !.tty_incaller = IF rd.left + rd.cum > 0 THEN FS_PROC_NR ELSE 0,
     !.tty_inproc = IF rd.left + rd.cum > 0 THEN 11 ELSE 0,
     !.tty_inrepcode = IF rd.left + rd.cum > 0 THEN "REVIVE" ELSE "NONE",
     !.tty_outleft = wr.left, !.tty_outcum = wr.cum,
     !.tty_out_vir = wr.cum, !.tty_outrevived = wr.revived,
     !.tty_outcaller = IF wr.cum > 0 THEN FS_PROC_NR ELSE 0,
     !.tty_outproc = IF wr.cum > 0 THEN 12 ELSE 0,
     !.tty_outrepcode = IF wr.cum > 0 THEN "REVIVE" ELSE "NONE",
     !.dev_room = room]

StatusLines ==
  {StatusLine(ops, q, rd, wr, room) :
     ops \in {{}, {"SEL_RD", "SEL_WR"}},
     q \in {<< >>, << [Cell(10) EXCEPT !.eot = TRUE] >>},
     rd \in StatusReaders, wr \in StatusWriters, room \in {0, DevRoom}}

StatusInit ==
  /\ tty \in [1 .. NrLines -> StatusLines]
  /\ msg = NoMessage

Poll ==
  /\ tty' = do_status_table([i \in DOMAIN tty |-> begin(tty[i])], StatusMsg)
  /\ msg' = StatusMsg

StatusNext == Poll

StatusSpec == StatusInit /\ [][StatusNext]_vars

\* the messages the iteration sent, over all lines
RECURSIVE RepliesUpTo(_, _)
RepliesUpTo(tab, n) ==
  IF n = 0 THEN << >> ELSE RepliesUpTo(tab, n - 1) \o tab[n].sent

Replies(tab) == RepliesUpTo(tab, Len(tab))

\* the events pending for FS: << line, kind >>
Pending(tab) ==
  {e \in (DOMAIN tab) \X {"select", "read", "write"} :
     LET s == tab[e[1]]
     IN \/ /\ e[2] = "select"
           /\ s.tty_select_proc = FS_PROC_NR
           /\ select_try(s, s.tty_select_ops) # {}
        \/ e[2] = "read" /\ s.tty_inrevived /\ s.tty_incaller = FS_PROC_NR
        \/ e[2] = "write" /\ s.tty_outrevived /\ s.tty_outcaller = FS_PROC_NR}

\* the reply that reports the event e of the table
ReportOf(tab, e) ==
  LET s == tab[e[1]]
  IN [to |-> FS_PROC_NR,
      m_type |-> IF e[2] = "select" THEN "DEV_IO_READY" ELSE "DEV_REVIVE",
      REP_PROC_NR |-> IF e[2] = "select" THEN 0
                      ELSE IF e[2] = "read" THEN s.tty_inproc
                      ELSE s.tty_outproc,
      REP_STATUS |-> IF e[2] = "select"
                     THEN BitsOf(select_try(s, s.tty_select_ops))
                     ELSE IF e[2] = "read" THEN s.tty_incum
                     ELSE s.tty_outcum]

\* the table with the state of the event e cleared and nothing else changed
Unmarked(tab, e) ==
  LET s == tab[e[1]]
  IN [tab EXCEPT ![e[1]] =
        IF e[2] = "select"
        THEN [s EXCEPT !.tty_select_ops = @ \ select_try(s, @)]
        ELSE IF e[2] = "read"
        THEN [s EXCEPT !.tty_inleft = 0, !.tty_incum = 0,
                       !.tty_inrevived = FALSE]
        ELSE [s EXCEPT !.tty_outcum = 0, !.tty_outrevived = FALSE]]

Lines(tab) == [i \in DOMAIN tab |-> begin(tab[i])]

\* C23: a DEV_STATUS poll sends exactly one reply; with no event pending
\* for the caller it is DEV_NO_STATUS and no line changes; otherwise it
\* reports one pending event, clears the state of that event only, and
\* every other pending event is still pending, for a later poll to report.
C23_StatusPoll ==
  [][msg'.m_type = "DEV_STATUS"
     => /\ Len(Replies(tty')) = 1
        /\ Pending(tty) = {}
           => /\ Replies(tty')[1].m_type = "DEV_NO_STATUS"
              /\ Lines(tty') = Lines(tty)
        /\ Pending(tty) # {}
           => \E e \in Pending(tty) :
                /\ Replies(tty') = << ReportOf(tty, e) >>
                /\ Lines(tty') = Lines(Unmarked(tty, e))
                /\ Pending(tty') = Pending(tty) \ {e}]_vars

\* the third poll has reported the revived writer of the second line, after
\* the select event and the revived reader of that line; the subscription
\* to SEL_RD, which is not ready, is still recorded
C23_Witness ==
  /\ msg.m_type = "DEV_STATUS"
  /\ Replies(tty) = << [to |-> FS_PROC_NR, m_type |-> "DEV_REVIVE",
                        REP_PROC_NR |-> 12, REP_STATUS |-> MaxCount] >>
  /\ tty[2].sent # << >>
  /\ tty[2].tty_select_ops = {"SEL_RD"}
  /\ tty[2].tty_in_vir = 1 /\ ~tty[2].tty_inrevived
  /\ tty[2].tty_incum = 0
  /\ Pending(tty) = {}


(***************************************************************************)
(* CancelSpec: a reader of process 11, a writer and a TCDRAIN of process   *)
(* 12, and CANCELs for either process with every combination of R_BIT and  *)
(* W_BIT.  The iteration of main() that receives a CANCEL is taken in two  *)
(* steps: do_cancel, which leaves tty_events set, and then the loop of     *)
(* main() that handles the events of the line; nothing is received in      *)
(* between.                                                                *)
(***************************************************************************)
\* a CANCEL is received and do_cancel has returned
DoCancel(p, mode) ==
  /\ tty' = do_cancel(begin(tty), CancelMsg(p, mode))
  /\ msg' = CancelMsg(p, mode)

\* "Check for and handle any events on any of the ttys." after do_cancel
MainEvents ==
  /\ tty.tty_events
  /\ tty' \in Outcomes(main_events(tty))
  /\ msg' = msg

CancelNext ==
  \/ ~tty.tty_events /\ DevRead(11, 1, FALSE, TRUE)
  \/ ~tty.tty_events /\ tty.tty_outleft = 0
       /\ DevWrite(12, MaxCount, FALSE, TRUE)
  \/ ~tty.tty_events /\ DevIoctl(12, TCDRAIN, termios_defaults, 0, TRUE)
  \/ \E c \in {97, 10} : ~tty.tty_events /\ Input(<< c >>)
  \/ \E p \in Procs, mode \in SUBSET {"R_BIT", "W_BIT"} :
       ~tty.tty_events /\ DoCancel(p, mode)
  \/ MainEvents

CancelSpec == Init /\ [][CancelNext]_vars

ReaderSlot(t) ==
  << t.tty_inleft, t.tty_incum, t.tty_in_vir, t.tty_inproc, t.tty_incaller,
     t.tty_inrepcode, t.tty_inrevived >>

WriterSlot(t) ==
  << t.tty_outleft, t.tty_outcum, t.tty_out_vir, t.tty_outproc,
     t.tty_outcaller, t.tty_outrepcode, t.tty_outrevived >>

\* do_cancel has handled the message m': the line was not in the middle of
\* an iteration before
Cancelled(t, m) == m.m_type = "CANCEL" /\ ~t.tty_events

\* C24: do_cancel always answers EINTR and sets tty_events; with R_BIT and
\* the proc of a reader that has leftover # 0 it clears the reader slot and
\* empties the input queue; with W_BIT and the proc of a writer that has
\* leftover # 0 it clears the writer slot; it clears a drain ioctl pending
\* for the proc; the reader, writer and drain slots of another proc are
\* left unchanged.
C24_Cancel ==
  [][Cancelled(tty, msg')
     => /\ tty'.sent = << ReplyTo(msg', EINTR) >>
        /\ tty'.tty_events
        /\ (Has(msg'.MODE, "R_BIT") /\ tty.tty_inleft # 0
              /\ msg'.PROC_NR = tty.tty_inproc)
           => /\ tty'.tty_inleft = 0 /\ tty'.tty_incum = 0
              /\ tty'.tty_incount = 0 /\ tty'.tty_eotct = 0
              /\ tty'.tty_intail = tty'.tty_inhead
        /\ (Has(msg'.MODE, "W_BIT") /\ tty.tty_outleft # 0
              /\ msg'.PROC_NR = tty.tty_outproc)
           => tty'.tty_outleft = 0 /\ tty'.tty_outcum = 0
        /\ (tty.tty_ioreq # 0 /\ msg'.PROC_NR = tty.tty_ioproc)
           => tty'.tty_ioreq = 0
        /\ msg'.PROC_NR # tty.tty_inproc
           => /\ ReaderSlot(tty') = ReaderSlot(tty)
              /\ QueueCells(tty') = QueueCells(tty)
              /\ tty'.tty_eotct = tty.tty_eotct
        /\ msg'.PROC_NR # tty.tty_outproc
           => WriterSlot(tty') = WriterSlot(tty)
        /\ msg'.PROC_NR # tty.tty_ioproc
           => DrainSlot(tty') = DrainSlot(tty)]_vars

\* do_cancel has cleared the suspended writer and the TCDRAIN of process 12
\* and has left the suspended reader of process 11 and the typed 'a' alone
C24_Witness ==
  /\ msg = CancelMsg(12, {"R_BIT", "W_BIT"})
  /\ tty.tty_events
  /\ tty.sent = << ReplyTo(msg, EINTR) >>
  /\ tty.tty_inleft = 1 /\ tty.tty_inproc = 11
  /\ tty.tty_incount = 1
  /\ tty.tty_outleft = 0 /\ tty.tty_outcum = 0
  /\ tty.tty_outproc = 12 /\ tty.tty_outrepcode = "REVIVE"
  /\ ~tty.tty_outrevived
  /\ tty.tty_ioreq = 0 /\ tty.tty_ioproc = 12


(***************************************************************************)
(* SelectSpec: DEV_SELECT with and without SEL_NOTIFY, for no operation,   *)
(* for SEL_RD, and for two and three operations, on a canonical line that  *)
(* receives input, gets a reader and output the device holds on to, and    *)
(* is hung up and set up again by TCSETS.                                  *)
(***************************************************************************)
\* PROC_NR of the DEV_SELECTs: SEL_RD|SEL_WR|SEL_ERR, SEL_NOTIFY alone, and
\* SEL_NOTIFY with SEL_RD, with SEL_RD|SEL_WR and with all three
SelectBits == {7, 8, 9, 11, 15}

SelectNext ==
  \/ \E bits \in SelectBits : DevSelect(bits)
  \/ \E c \in {97, 10} : Input(<< c >>)
  \/ DevRead(11, 1, FALSE, TRUE)
  \/ tty.dev_room = DevRoom /\ DevWrite(12, 1, FALSE, TRUE)
  \/ \E t \in {Canon, HungUp(Canon)} : DevIoctl(11, TCSETS, t, 0, TRUE)

SelectSpec == Init /\ [][SelectNext]_vars

SelectState(t) == << t.tty_select_ops, t.tty_select_proc >>

\* C25: DEV_SELECT is answered with a set of ready operations that is a
\* subset of the requested ones and is all of them on a hung-up line; the
\* subscription (ops, sender) is recorded when no requested operation is
\* ready, some operation is requested and SEL_NOTIFY is set; in every other
\* case the select state of the line is unchanged.
C25_Select ==
  [][msg'.m_type = "DEV_SELECT"
     => LET ops == OpsOf(msg'.PROC_NR)
            watch == HasBit(msg'.PROC_NR, "SEL_NOTIFY")
        IN \E ready \in SUBSET ops :
             /\ tty'.sent = << ReplyTo(msg', BitsOf(ready)) >>
             /\ tty.tty_termios.c_ospeed = B0 => ready = ops
             /\ IF ready = {} /\ ops # {} /\ watch
                THEN /\ ops \subseteq tty'.tty_select_ops
                     /\ tty'.tty_select_proc = msg'.m_source
                     /\ SelectState(tty') # SelectState(tty)
                          \/ ops \subseteq tty.tty_select_ops
                ELSE SelectState(tty') = SelectState(tty)]_vars

\* a DEV_SELECT for SEL_RD and SEL_WR with SEL_NOTIFY has found neither
\* ready (no input, the device busy) and has been recorded
C25_Witness ==
  /\ msg = SelectMsg(11)
  /\ tty.sent = << ReplyTo(msg, 0) >>
  /\ tty.tty_select_ops = {"SEL_RD", "SEL_WR"}
  /\ tty.tty_select_proc = FS_PROC_NR
  /\ tty.dev_room = 0


(***************************************************************************)
(* ReadySpec: DEV_SELECT for SEL_RD and blocking DEV_READs on a line in    *)
(* canonical mode, in raw mode with MIN = MaxCount and TIME = 0, or hung   *)
(* up, while input arrives and revived readers are collected.              *)
(***************************************************************************)
ReadyNext ==
  \/ \E bits \in {1, 9} : DevSelect(bits)
  \/ \E c \in {97, 10} : Input(<< c >>)
  \/ \E n \in {1, MaxCount} : DevRead(11, n, FALSE, TRUE)
  \/ \E t \in {Canon, HungUp(Canon), RawTermios(MaxCount, 0)} :
       DevIoctl(11, TCSETS, t, 0, TRUE)
  \/ DevStatus

ReadySpec == Init /\ [][ReadyNext]_vars

\* the reply to the DEV_SELECT m reports the operation o ready
ReportsReady(t, m, o) ==
  /\ m.m_type = "DEV_SELECT"
  /\ \E r \in StatusesOf(t, "TASK_REPLY") : r >= 0 /\ HasBit(r, o)

\* C26: when DEV_SELECT has reported SEL_RD ready, a blocking DEV_READ with
\* valid parameters that is the next message is not answered SUSPEND.
C26_ReadyReadDoesNotBlock ==
  [][(ReportsReady(tty, msg, "SEL_RD") /\ ValidRead(msg')
        /\ ~Has(msg'.TTY_FLAGS, "O_NONBLOCK"))
     => SUSPEND \notin StatusesOf(tty', "TASK_REPLY")]_vars


(***************************************************************************)
(* CloseSpec: a line that is opened and closed, up to MaxOpen opens at a   *)
(* time, and between the two has its termios and window size changed,      *)
(* receives input, and gets a writer and a TCDRAIN that wait for the       *)
(* device.                                                                 *)
(***************************************************************************)
CloseNext ==
  \/ \E p \in Procs : DevOpen("TTY", p, {})
  \/ tty.tty_openct > 0 /\ DevClose("TTY", 11)
  \/ tty.tty_openct > 0 /\ Input(<< 10 >>)
  \/ tty.tty_openct > 0 /\ DevIoctl(11, TCSETS, Canon, 0, TRUE)
  \/ tty.tty_openct > 0 /\ DevIoctl(11, TIOCSWINSZ, termios_defaults, 1, TRUE)
  \/ tty.tty_openct > 0 /\ tty.tty_outleft = 0
       /\ DevWrite(12, MaxCount, FALSE, TRUE)
  \/ tty.tty_openct > 0 /\ DevIoctl(12, TCDRAIN, termios_defaults, 0, TRUE)

CloseSpec == OpenInit /\ [][CloseNext]_vars

\* the DEV_CLOSE m of a line, not of the log device
IsClose(m) == m.m_type = "DEV_CLOSE" /\ m.TTY_LINE # "LOG"

\* C27: after a DEV_CLOSE that brings open_count to 0 the input queue is
\* empty, pgrp is 0, the writer slot and the drain slot are clear, and
\* termios and winsize are the defaults; a DEV_CLOSE that leaves
\* open_count > 0 changes open_count only.
C27_LastClose ==
  /\ [][(IsClose(msg') /\ tty.tty_openct = 1)
        => /\ tty'.tty_openct = 0
           /\ tty'.tty_incount = 0 /\ tty'.tty_eotct = 0
           /\ tty'.tty_pgrp = 0
           /\ tty'.tty_outleft = 0
           /\ tty'.tty_ioreq = 0
           /\ tty'.tty_termios = termios_defaults
           /\ tty'.tty_winsize = winsize_defaults]_vars
  /\ [][(IsClose(msg') /\ tty.tty_openct > 1)
        => Line(tty') = [Line(tty) EXCEPT !.tty_openct = @ - 1]]_vars


\* the REVIVE replies for process p among the messages sent
Revives(t, p) ==
  {i \in 1 .. Len(t.sent) :
     t.sent[i].m_type = "REVIVE" /\ t.sent[i].REP_PROC_NR = p}

\* C28: a TCSETSW, TCSETSF or TCDRAIN that waits in the drain slot stays
\* there, unless a CANCEL for its proc arrives, until its caller is sent
\* one REVIVE, in the iteration that leaves the writer with nothing left,
\* after which the slot is clear; TCSETSF has then emptied the input queue
\* and applied its termios, and TCDRAIN has left the termios as it was.
C28_DrainCompletes ==
  [][(tty.tty_ioreq # 0
        /\ ~(msg'.m_type = "CANCEL" /\ msg'.PROC_NR = tty.tty_ioproc))
     => \/ /\ DrainSlot(tty') = DrainSlot(tty)
           /\ Revives(tty', tty.tty_ioproc) = {}
           /\ tty'.tty_outleft > 0
        \/ /\ tty'.tty_ioreq = 0
           /\ Cardinality(Revives(tty', tty.tty_ioproc)) = 1
           /\ tty'.tty_outleft = 0
           /\ tty.tty_ioreq = TCDRAIN
                => tty'.tty_termios = tty.tty_termios
           /\ tty.tty_ioreq # TCDRAIN
                => tty'.tty_termios = tty.tty_iovir
           /\ tty.tty_ioreq = TCSETSF => tty'.tty_incount = 0]_vars


(***************************************************************************)
(* EventSpec: every way tty_events gets set.  Input interrupts of the      *)
(* device, the expiry of the read timer, CANCEL, TCFLOW, setattr without   *)
(* IXON, the flush of an interrupt character, and the STOP and START       *)
(* characters.  A state of the specification is the line at the receive    *)
(* of main().                                                              *)
(***************************************************************************)
\* canonical mode with STOP and START, and raw mode with MIN = TIME = 1
\* and signals, without
EventModes == {[Canon EXCEPT !.c_iflag = {"IXON"}], RawSig}

\* the interrupt character, STOP and START
EventChars == {cc_defaults.VINTR, cc_defaults.VSTOP, cc_defaults.VSTART}

EventNext ==
  \/ \E c \in EventChars : HardIntInput(c, FALSE)
  \/ SynAlarm
  \/ Cancel(11, {"R_BIT", "W_BIT"})
  \/ \E p \in {TCOOFF, TCOON} : DevIoctl(11, TCFLOW, Canon, p, TRUE)
  \/ \E t \in EventModes : DevIoctl(11, TCSETS, t, 0, TRUE)
  \/ DevRead(11, 1, FALSE, TRUE)

EventSpec == Init /\ [][EventNext]_vars

\* C29: whenever the server waits for a message, the events flag of the
\* line is clear: every setting of tty_events has been followed by a pass
\* of handle_events before the receive.
C29_NoEventAtReceive == ~tty.tty_events

\* the interrupt character has made sigchar flush the line, which set
\* tty_events in the middle of the pass over the input; the pass was
\* repeated and the flag is clear
C29_Witness ==
  /\ msg.m_type = "HARD_INT"
  /\ tty.sigs = << [proc |-> 11, sig |-> "SIGINT"] >>
  /\ tty.tty_inhibited = RUNNING
  /\ tty.tty_termios.c_iflag = {"IXON"}
  /\ tty.tty_inleft > 0
  /\ ~tty.tty_events


\* ---------------------------------------------------------------------------
\* Typeahead across mode switches: characters typed in canonical and in raw
\* mode, the three requests that set the attributes (TCSETS at once, TCSETSW
\* and TCSETSF through dev_ioctl, the latter after tty_icancel), and reads
\* that take cells off the tail of the queue.
\* ---------------------------------------------------------------------------
TypeaheadRaw == RawTermios(1, 0)

TypeaheadNext ==
  \/ \E c \in {97, 10} : Input(<< c >>)
  \/ \E t \in {Canon, TypeaheadRaw} : DevIoctl(11, TCSETS, t, 0, TRUE)
  \/ \E req \in {TCSETSW, TCSETSF} : DevIoctl(11, req, TypeaheadRaw, 0, TRUE)
  \/ \E n \in {1, MaxCount} : DevRead(11, n, FALSE, TRUE)

TypeaheadSpec == Init /\ [][TypeaheadNext]_vars

\* C30: whenever the line is in raw mode (ICANON off) while the server waits
\* for the next message, every cell of the input queue carries the EOT mark
\* and tty_eotct equals tty_incount
C30_RawQueueAllEot ==
  ~Has(tty.tty_termios.c_lflag, "ICANON") =>
    /\ tty.tty_eotct = tty.tty_incount
    /\ \A i \in 1 .. tty.tty_incount : QueueCells(tty)[i].eot

\* TCSETS has just switched the line to raw mode over a full queue of
\* typeahead that no reader has taken, and every cell is marked
C30_Witness ==
  /\ msg = IoctlMsg(11, TCSETS, TypeaheadRaw, 0, TRUE)
  /\ ~Has(tty.tty_termios.c_lflag, "ICANON")
  /\ tty.tty_incount = InBufLen
  /\ tty.tty_eotct = InBufLen
  /\ \A i \in 1 .. InBufLen : QueueCells(tty)[i].eot


\* ---------------------------------------------------------------------------
\* Interrupt and quit characters.  The line is opened with or without
\* O_NOCTTY (tty_pgrp zero or not), set to modes with ISIG, with and without
\* NOFLSH, ICANON and IXON|IXANY, stopped with TCFLOW, given
\* typeahead and a suspended reader.  The arrival of one character is taken
\* in two steps, in_process and then the rest of handle_events, so that the
\* line can be looked at as in_process leaves it.
\* ---------------------------------------------------------------------------
SigModes ==
  {[Canon EXCEPT !.c_lflag = {"ISIG", "ICANON"},
                 !.c_iflag = {"IXON", "IXANY"}],
   [Canon EXCEPT !.c_lflag = {"ISIG", "ICANON", "NOFLSH"},
                 !.c_iflag = {"IXON", "IXANY"}],
   [Canon EXCEPT !.c_lflag = {"ISIG", "NOFLSH"}, !.c_iflag = {}]}

SigChars == {cc_defaults.VINTR, cc_defaults.VQUIT, 97}

\* the message of an input interrupt whose character in_process has taken
InProcessMsg(c) == [AT |-> "in_process"] @@ InputMsg(<< c >>)

AtInProcess(m) == "AT" \in DOMAIN m

SigInit ==
  \E mode \in {{}, {"O_NOCTTY"}}, t \in SigModes :
    /\ tty = main_events(do_ioctl(
                begin(main_events(do_open(begin(tty_init),
                                          OpenMsg("TTY", 11, mode)))),
                IoctlMsg(11, TCSETS, t, 0, TRUE)))
    /\ msg = IoctlMsg(11, TCSETS, t, 0, TRUE)

\* devread of handle_events handing the character c to in_process
InProcess(c) ==
  /\ tty' = in_process([begin(tty) EXCEPT !.tty_events = FALSE], << c >>).s
  /\ msg' = InProcessMsg(c)

\* the rest of handle_events after devread
AfterInProcess ==
  /\ tty' \in Outcomes(handle_events(tty))
  /\ msg' = InputMsg(msg.CHARS)

SigNext ==
  \/ \E c \in SigChars : ~AtInProcess(msg) /\ InProcess(c)
  \/ AtInProcess(msg) /\ AfterInProcess
  \/ \E t \in SigModes :
       ~AtInProcess(msg) /\ DevIoctl(11, TCSETS, t, 0, TRUE)
  \/ ~AtInProcess(msg) /\ DevIoctl(11, TCFLOW, Canon, TCOOFF, TRUE)
  \/ ~AtInProcess(msg) /\ DevRead(12, 1, FALSE, TRUE)

SigSpec == SigInit /\ [][SigNext]_vars

\* in_process is taking an unescaped VINTR or VQUIT with ISIG set
TakesSigChar(t, m) ==
  /\ AtInProcess(m)
  /\ m.CHARS[1] \in {t.tty_termios.c_cc.VINTR, t.tty_termios.c_cc.VQUIT}
  /\ Has(t.tty_termios.c_lflag, "ISIG")
  /\ ~t.tty_escaped

SigOf(t, m) ==
  IF m.CHARS[1] = t.tty_termios.c_cc.VQUIT THEN "SIGQUIT" ELSE "SIGINT"

InputQueue(t) ==
  << t.tty_inbuf, t.tty_inhead, t.tty_intail, t.tty_incount, t.tty_eotct >>

\* the signal goes to tty_pgrp exactly when it is not zero, the character is
\* not stored, the reader's slot is left alone, and without NOFLSH the queue
\* is emptied, the line runs and tty_events is set
SigCharCommon(t, u, m) ==
  /\ u.sigs = IF t.tty_pgrp # 0
              THEN << [proc |-> t.tty_pgrp, sig |-> SigOf(t, m)] >>
              ELSE << >>
  /\ ReaderSlot(u) = ReaderSlot(t)
  /\ Has(t.tty_termios.c_lflag, "NOFLSH") => InputQueue(u) = InputQueue(t)
  /\ ~Has(t.tty_termios.c_lflag, "NOFLSH") =>
       /\ u.tty_incount = 0 /\ u.tty_eotct = 0
       /\ u.tty_intail = u.tty_inhead
       /\ u.tty_inhibited = RUNNING
       /\ u.tty_events

\* "Output restarts on START (^Q) or any character if IXANY."
RestartedByAny(t) ==
  /\ t.tty_inhibited = STOPPED
  /\ {"IXON", "IXANY"} \subseteq t.tty_termios.c_iflag

\* C31 as stated: with ISIG set an unescaped VINTR or VQUIT is not stored and
\* sends SIGINT or SIGQUIT to tty_pgrp exactly when it is not zero; without
\* NOFLSH the queue is emptied, the line runs and tty_events is set; with
\* NOFLSH the queue and tty_inhibited are unchanged; the reader's slot is
\* left as it was
C31_SigCharAsStated ==
  [][(~AtInProcess(msg) /\ TakesSigChar(tty, msg')) =>
       /\ SigCharCommon(tty, tty', msg')
       /\ Has(tty.tty_termios.c_lflag, "NOFLSH") =>
            tty'.tty_inhibited = tty.tty_inhibited]_vars

\* C31 amended: as stated, except that with NOFLSH set a stopped line with
\* IXON and IXANY is restarted by the character (tty_inhibited becomes
\* RUNNING and tty_events is set); otherwise tty_inhibited is unchanged
C31_SigChar ==
  [][(~AtInProcess(msg) /\ TakesSigChar(tty, msg')) =>
       /\ SigCharCommon(tty, tty', msg')
       /\ Has(tty.tty_termios.c_lflag, "NOFLSH") =>
            IF RestartedByAny(tty)
            THEN tty'.tty_inhibited = RUNNING /\ tty'.tty_events
            ELSE tty'.tty_inhibited = tty.tty_inhibited]_vars

\* in_process has taken VQUIT on a stopped line with NOFLSH, IXON and IXANY
\* whose queue holds typeahead: the signal went to the process group, the
\* typeahead is still queued and the line runs again
C31_Witness ==
  /\ AtInProcess(msg)
  /\ msg.CHARS = << cc_defaults.VQUIT >>
  /\ {"ISIG", "NOFLSH"} \subseteq tty.tty_termios.c_lflag
  /\ {"IXON", "IXANY"} \subseteq tty.tty_termios.c_iflag
  /\ tty.sigs = << [proc |-> 11, sig |-> "SIGQUIT"] >>
  /\ tty.tty_incount > 0
  /\ tty.tty_inhibited = RUNNING
  /\ tty.tty_events


\* ---------------------------------------------------------------------------
\* Writes the device does not take whole, observed on the iterations of
\* WriteSpec that handle a DEV_WRITE.
\* ---------------------------------------------------------------------------
\* a DEV_WRITE that passes the parameter checks of do_write
ValidWrite(m) == m.m_type = "DEV_WRITE" /\ m.COUNT > 0 /\ m.ADDRESS

\* what the device takes of the request m on the line t
Taken(t, m) ==
  IF t.tty_inhibited = STOPPED THEN 0 ELSE Min(m.COUNT, t.dev_room)

\* C32: a valid WRITE on a free writer slot (tty_outleft = 0) that the device
\* does not take whole is answered, with O_NONBLOCK, with the number of bytes
\* written if that is positive and with EAGAIN otherwise, and the slot is
\* cleared (tty_outleft = tty_outcum = 0); without O_NONBLOCK it is answered
\* SUSPEND and the slot stays occupied with reply code REVIVE; a WRITE that
\* arrives while tty_outleft > 0 is answered EIO and leaves the slot as it was
C32_PartialWrite ==
  [][ValidWrite(msg') =>
       IF tty.tty_outleft > 0
       THEN /\ StatusesOf(tty', "TASK_REPLY") = {EIO}
            /\ WriterSlot(tty') = WriterSlot(tty)
       ELSE Taken(tty, msg') < msg'.COUNT =>
              IF Has(msg'.TTY_FLAGS, "O_NONBLOCK")
              THEN /\ StatusesOf(tty', "TASK_REPLY") =
                        {IF Taken(tty, msg') > 0 THEN Taken(tty, msg')
                         ELSE EAGAIN}
                   /\ tty'.tty_outleft = 0
                   /\ tty'.tty_outcum = 0
              ELSE /\ StatusesOf(tty', "TASK_REPLY") = {SUSPEND}
                   /\ tty'.tty_outleft = msg'.COUNT - Taken(tty, msg')
                   /\ tty'.tty_outproc = msg'.PROC_NR
                   /\ tty'.tty_outrepcode = "REVIVE"]_vars


\* ---------------------------------------------------------------------------
\* One reader, its cancellation and its revival.  Process 11 reads; FS sends
\* no second READ for a process it holds suspended, and sends CANCEL only
\* for a process it holds suspended, that is from the SUSPEND reply until it
\* has collected the REVIVE with DEV_STATUS or has received EINTR.
\* ---------------------------------------------------------------------------
\* the driver holds a read of process p that was answered SUSPEND and whose
\* REVIVE has not been collected
Suspended(t, p) ==
  /\ t.tty_inproc = p
  /\ \/ t.tty_inleft > 0 /\ t.tty_inrepcode = "REVIVE"
     \/ t.tty_inrevived

ReviveNext ==
  \/ \E n \in {1, MaxCount} :
       ~Suspended(tty, 11) /\ DevRead(11, n, FALSE, TRUE)
  \/ Suspended(tty, 11) /\ Cancel(11, {"R_BIT"})
  \/ DevStatus
  \/ \E c \in {97, 10} : Input(<< c >>)
  \/ \E t \in {Canon, RawTermios(1, 0)} : DevIoctl(12, TCSETS, t, 0, TRUE)

ReviveSpec == Init /\ [][ReviveNext]_vars

\* the processes a DEV_REVIVE was sent for in the iteration that led to t
Revived(t) ==
  {t.sent[i].REP_PROC_NR :
     i \in {j \in 1 .. Len(t.sent) : t.sent[j].m_type = "DEV_REVIVE"}}

\* C33: a read that was answered EINTR is not afterwards reported as a REVIVE
\* by DEV_STATUS: the DEV_STATUS that follows the CANCEL of the reader does
\* not report a REVIVE for it
C33_CancelledNotRevived ==
  [][(msg = CancelMsg(11, {"R_BIT"}) /\ EINTR \in StatusesOf(tty, "TASK_REPLY")
      /\ msg' = StatusMsg)
       => 11 \notin Revived(tty')]_vars


\* ---------------------------------------------------------------------------
\* The EOT marks and their counter, over everything that touches them:
\* characters stored in canonical and in raw mode, reads, the erase
\* character (back_over, and reprint after output has messed up the line),
\* the reprint character, setattr switching modes, and TCFLSH.
\* ---------------------------------------------------------------------------
MarkModes ==
  {[Canon EXCEPT !.c_lflag = {"ICANON", "IEXTEN"}], RawTermios(1, 0)}

MarkChars == {97, 10, cc_defaults.VERASE, cc_defaults.VREPRINT}

MarkNext ==
  \/ \E c \in MarkChars : Input(<< c >>)
  \/ \E t \in MarkModes : DevIoctl(11, TCSETS, t, 0, TRUE)
  \/ DevRead(11, 1, TRUE, TRUE)
  \/ tty.dev_room = DevRoom /\ DevWrite(12, 1, FALSE, TRUE)
  \/ DevIoctl(11, TCFLSH, termios_defaults, TCIFLUSH, TRUE)

MarkSpec == Init /\ [][MarkNext]_vars

\* the cells of the window [tty_intail, tty_inhead) that carry IN_EOT
EotCells(t) == {i \in 1 .. t.tty_incount : QueueCells(t)[i].eot}

\* C34: in every reachable state tty_eotct is the number of cells in the
\* window [tty_intail, tty_inhead) of the input queue that carry IN_EOT
C34_EotCount == tty.tty_eotct = Cardinality(EotCells(tty))

\* the erase character has been handled by back_over on a line whose queue
\* holds a line break, with the character typed after the break still in the
\* cell at the head: the break is queued and counted
C34_Witness ==
  /\ msg = InputMsg(<< cc_defaults.VERASE >>)
  /\ Has(tty.tty_termios.c_lflag, "ICANON")
  /\ tty.tty_inbuf[tty.tty_inhead].ch = 97
  /\ tty.tty_incount = 1
  /\ tty.tty_eotct = 1
  /\ QueueCells(tty)[1].eot

\* ---------------------------------------------------------------------------
\* MIN and the timer across modes: raw modes with a read timer (MIN = 0,
\* TIME > 0) and with an inter-byte timer (MIN > 0, TIME > 0), reads that arm
\* the timer, its expiry, input, a hangup (ospeed B0), and the return to
\* canonical mode.
\* ---------------------------------------------------------------------------
MinModes == {Canon, HungUp(Canon), RawTermios(0, 1), RawTermios(1, 1)}

MinNext ==
  \/ \E t \in MinModes : DevIoctl(11, TCSETS, t, 0, TRUE)
  \/ DevRead(11, 1, FALSE, TRUE)
  \/ SynAlarm
  \/ HardIntInput(97, FALSE)
  \/ DevStatus

MinSpec == Init /\ [][MinNext]_vars

\* C35: whenever the line is in canonical mode and not hung up (ICANON set,
\* c_ospeed not B0) while the server waits for the next message, tty_min is 1
\* and no timer is armed for the line
C35_CanonicalMin ==
  (Has(tty.tty_termios.c_lflag, "ICANON") /\ tty.tty_termios.c_ospeed # B0)
    => tty.tty_min = 1 /\ ~tty.tty_tmr

\* TCSETS has brought the line back to canonical mode while a reader is
\* still suspended on it: MIN is 1 and the timer is off
C35_Witness ==
  /\ msg = SetCanon
  /\ Has(tty.tty_termios.c_lflag, "ICANON")
  /\ tty.tty_termios.c_ospeed # B0
  /\ tty.tty_inleft > 0
  /\ tty.tty_inrepcode = "REVIVE"
  /\ tty.tty_min = 1
  /\ ~tty.tty_tmr

\* ---------------------------------------------------------------------------
\* out_process called once with 0 <= *icount <= *ocount on any buffer of
\* 'A's, backspaces, tabs and newlines, from any place in it, at the first
\* and at the last column, with and without output processing.
\* ---------------------------------------------------------------------------
\* 'A', backspace, tab and newline
ColumnChars == {65, 8, 9, 10}

ColumnFlags == {{"OPOST", "ONLCR", "XTABS"}, {}}

ColumnCalls ==
  {[m_type |-> "out_process", buf |-> b, bpos |-> p, icount |-> i,
    ocount |-> o, returned |-> FALSE] :
     b \in [0 .. OutBufLen - 1 -> ColumnChars], p \in 0 .. OutBufLen - 1,
     i \in 0 .. OutBufLen, o \in 0 .. OutBufLen + 1}

ColumnInit ==
  /\ \E f \in ColumnFlags, p \in {0, TAB_SIZE - 1} :
       tty = [Opened EXCEPT !.tty_termios.c_oflag = f, !.tty_position = p]
  /\ msg \in {c \in ColumnCalls : c.icount <= c.ocount}

ColumnNext == OutProcess

ColumnSpec == ColumnInit /\ [][ColumnNext]_vars

\* C36: for a call of out_process with 0 <= *icount <= *ocount, on return
\* the number of input characters consumed is between 0 and the initial
\* *icount, the number of output slots used is between 0 and the initial
\* *ocount and at least the number consumed, and the column of the line is
\* in 0 .. TAB_SIZE - 1
C36_OutCounts ==
  [][(~msg.returned /\ msg'.returned) =>
       /\ 0 <= msg'.icount /\ msg'.icount <= msg.icount
       /\ 0 <= msg'.ocount /\ msg'.ocount <= msg.ocount
       /\ msg'.icount <= msg'.ocount
       /\ tty'.tty_position \in 0 .. TAB_SIZE - 1]_vars

\* out_process has returned from a call that found a backspace at column 0:
\* one character consumed, one slot used, and the column is TAB_SIZE - 1
C36_Witness ==
  /\ msg.returned
  /\ msg.buf[msg.bpos] = 8
  /\ msg.icount = 1
  /\ msg.ocount = 1
  /\ tty.tty_position = TAB_SIZE - 1
  /\ tty.tty_termios.c_oflag = {}

====
